---- MODULE Spec2Model ----
(***************************************************************************)
(* Ticket import and analysis pipeline of the churn-risk backend           *)
(* (backend/src/services/ticket_import.py).                                *)
(*                                                                         *)
(* One tenant, one SQLAlchemy session.  `tickets` and `integration` are    *)
(* the committed rows; `staged` is what the session's open transaction     *)
(* sees (committed rows plus the flushed, uncommitted writes of the run).  *)
(* A run of import_and_analyze_tickets is split at its awaits on the       *)
(* outside world: the precondition checks, the search request, the token   *)
(* refresh, the retried search, one step per batch item, the final commit. *)
(*                                                                         *)
(* Of a ticket row the columns subject, content and the three sentiment    *)
(* columns are kept; status, priority, the source timestamps, the deep     *)
(* link and source_metadata are copied from the item exactly like subject  *)
(* and are not kept separately.                                            *)
(***************************************************************************)
EXTENDS Naturals, Integers, Sequences, FiniteSets, TLC

\* Longest batch the source returns in the model (the code asks for 20).
MaxBatch == 2

NULL == "NULL"
NoConfidence == 0 - 1
NoTime == 0

VARIABLES
    integration,  \* committed Integration row of the tenant
    tickets,      \* committed Ticket rows: external_id -> row
    staged,       \* Ticket rows as seen inside the session's transaction
    session_integration, \* the Integration object held by the session
    txn,          \* "active" | "inactive" (rolled back by a failed flush)
    source,       \* what the CRM's search currently returns for the tenant
    pc,           \* position of the run
    error,        \* exception the run raised, "" if none
    client,       \* access token of the HubSpotClient built at line 80
    batch,        \* tickets_data
    idx,          \* 1-based index of the next item of the batch
    result,       \* ImportResult
    calls,        \* requests and session calls issued by this run
    events,       \* what happened to each processed item, in order
    before,       \* committed rows when the run started
    days_back,    \* the days_back argument of the run
    repeated      \* the previous run returned having analyzed every item
                  \* of the batch the source still returns

\* The analyzer (services/openrouter.py) as the loop calls it at line 298.
VARIABLES
    a_pc,         \* "idle" | "attempt": a call of analyze_ticket is under way
    attempt,      \* attempt_number of the call's retry state
    trace,        \* backend answers of the current or the last call, in order
    last_attempt, \* exception of the last failed attempt of the call
    history,      \* one summary per finished call on this analyzer instance
    a_result      \* the ImportResult counters lines 307 and 315 write

avars == <<a_pc, attempt, trace, last_attempt, history, a_result>>

\* The pure helpers of the service, applied on their own.
VARIABLES
    stage,        \* hs_pipeline_stage handed to _map_ticket_status, in pieces
    mapped,       \* what _map_ticket_status returned for it, NULL before
    desc_in,      \* description handed to _build_ticket_content
    thread_in,    \* emails of a ticket in the order the CRM lists them
    content_out   \* the assembled content, NotAssembled before

fvars == <<stage, mapped, desc_in, thread_in, content_out>>

\* The loop of lines 93-99 with the awaits of _process_ticket, item by item.
VARIABLES
    loop_items,   \* len(tickets_data), 0 until the batch is fetched
    item_pos,     \* per item: "waiting" | "thread" | "classify" | "backoff"
                  \* | how it ended
    item_attempt, \* per item: attempt of its analyze_ticket call, 0 if none
    io_log        \* thread fetches, lookups and classifier requests, in order

lvars == <<loop_items, item_pos, item_attempt, io_log>>

\* Two tenants, each with a run on a session of its own; the two tables
\* hold the rows of both.
VARIABLES
    db_integrations, \* committed rows of integrations
    db_tickets,      \* committed rows of tickets: row id -> row
    r_pc,            \* per tenant: position of the tenant's run
    r_integration,   \* per tenant: the Integration the run loaded
    r_batch,         \* per tenant: tickets_data
    r_idx,           \* per tenant: index of the next item
    r_session,       \* per tenant: ticket rows the session of the run has
                     \* flushed and not committed: row id -> row
    r_txn            \* per tenant: "active" | "inactive"

tvars == <<db_integrations, db_tickets, r_pc, r_integration, r_batch, r_idx,
           r_session, r_txn>>

runvars == <<integration, tickets, staged, session_integration, txn, source,
             pc, error, client, batch, idx, result, calls, events, before,
             days_back, repeated>>

vars == <<runvars, avars, fvars, lvars, tvars>>

----------------------------------------------------------------------------
\* Data

ExternalIds == {"t1", "t2"}

\* Source items: {id, properties{subject, content, createdate}}.
\* id "" is an item without id; subject NULL is a property returned as null.
GoodDate == "2025-11-08T10:00:00Z"
OldDate == "2025-10-31T10:00:00Z"
BadDate == "not-a-date"

Item(i, s, c, d) == [id |-> i, subject |-> s, content |-> c, createdate |-> d]

Items ==
    { Item("t1", "s1", "d1", GoodDate),
      Item("t1", "s2", "", OldDate),
      Item("t2", "s1", "d1", GoodDate),
      Item("t2", NULL, "d1", GoodDate),
      Item("t2", "s1", "d1", BadDate),
      Item("", "s1", "d1", GoodDate) }

RECURSIVE SeqsUpTo(_, _)
SeqsUpTo(S, n) ==
    IF n = 0 THEN {<<>>}
    ELSE LET shorter == SeqsUpTo(S, n - 1)
         IN  shorter \cup {Append(q, x) : q \in {r \in shorter : Len(r) = n - 1}, x \in S}

Batches == SeqsUpTo(Items, MaxBatch)

\* Emails the CRM holds per ticket (get_ticket_email_thread's answer).
Email1 == [hs_timestamp |-> "2025-11-08T11:00:00Z", hs_email_direction |-> "INCOMING_EMAIL",
           hs_email_from |-> "a@x", hs_email_to |-> "b@y",
           hs_email_subject |-> "Re", hs_email_text |-> "body", hs_email_html |-> ""]

ThreadOf(id) == IF id = "t1" THEN <<Email1>> ELSE <<>>

\* What the analyzer can return.
AnalysisResults ==
    { [sentiment |-> "negative", confidence |-> 85],
      [sentiment |-> "positive", confidence |-> 50] }

\* Clock readings.  An analysis is drawn together with the reading taken
\* when it is written, so that two analyses differ in all three columns.
Times == {1, 2}

RefreshTimes == {2}

AnalysisFailed == [sentiment |-> "error", confidence |-> NoConfidence]

AnalyzerOutcomes == AnalysisResults \cup {AnalysisFailed}

\* The (analyzer answer, clock reading) pairs a step draws from.
Observations ==
    { <<[sentiment |-> "negative", confidence |-> 85], 1>>,
      <<[sentiment |-> "positive", confidence |-> 50], 2>>,
      <<AnalysisFailed, 1>> }

Credentials(a, r, h) == [access_token |-> a, refresh_token |-> r, hub_id |-> h]

IntegrationRow(e, st, cr) ==
    [exists |-> e, status |-> st, credentials |-> cr, last_synced_at |-> NoTime]

\* Integration rows the tenant can have been set up with.
Integrations ==
    { IntegrationRow(FALSE, "disconnected", Credentials(NULL, NULL, NULL)),
      IntegrationRow(TRUE, "active", Credentials("a0", "r0", "h")),
      IntegrationRow(TRUE, "active", Credentials("a0", NULL, "h")),
      IntegrationRow(TRUE, "active", Credentials(NULL, "r0", "h")),
      IntegrationRow(TRUE, "disconnected", Credentials("a0", "r0", "h")),
      IntegrationRow(TRUE, "disconnected", Credentials(NULL, NULL, "h")),
      IntegrationRow(TRUE, "error", Credentials("a0", "r0", "h")) }

\* Answer of the OAuth refresh endpoint: access_token, refresh_token (and
\* expires_in); it carries no hub_id.
NewTokens == Credentials("a1", "r1", NULL)

\* days_back as callers pass it; 7 is the default of the signature.
DaysBackValues == {1, 7}

DefaultDaysBack == 7

NoSnapshot == [tickets |-> << >>, integration |-> IntegrationRow(FALSE, "", Credentials(NULL, NULL, NULL))]

ZeroResult == [imported |-> 0, analyzed |-> 0, skipped |-> 0, failed |-> 0]

NoCalls == [search |-> <<>>, answers |-> <<>>, refresh |-> 0, thread |-> 0, classify |-> 0,
            flush |-> 0, commit |-> 0, rollback |-> 0]

SearchRequest(token) ==
    [token |-> token, limit |-> 20, sort_by |-> "createdate",
     sort_direction |-> "DESCENDING"]

----------------------------------------------------------------------------
\* Pure helpers

NumStr(i) == CASE i = 1 -> "1" [] i = 2 -> "2" [] i = 3 -> "3" [] OTHER -> "n"

\* One email of the thread: header, then the body (text preferred to html).
EmailParts(email, i) ==
    LET email_text == IF email.hs_email_text # "" THEN email.hs_email_text
                      ELSE email.hs_email_html
    IN  <<"[Email", NumStr(i), email.hs_email_direction>>
        \o (IF email.hs_timestamp \notin {"", NULL}
            THEN <<"at", email.hs_timestamp>> ELSE <<>>)
        \o <<"From:", email.hs_email_from, "To:", email.hs_email_to>>
        \o (IF email.hs_email_subject # "" THEN <<"Subject:", email.hs_email_subject>> ELSE <<>>)
        \o (IF email_text # "" THEN <<email_text>> ELSE <<>>)

RECURSIVE ThreadParts(_, _)
ThreadParts(email_thread, i) ==
    IF i > Len(email_thread) THEN <<>>
    ELSE EmailParts(email_thread[i], i) \o ThreadParts(email_thread, i + 1)

\* The assembled text as its sequence of parts; <<>> is the empty string.
build_ticket_content(subject, initial_content, email_thread) ==
    (IF initial_content \notin {"", NULL}
        THEN <<"Initial Description:", initial_content>> ELSE <<>>)
    \o (IF email_thread # <<>>
        THEN <<"--- Email Thread ---">> \o ThreadParts(email_thread, 1) ELSE <<>>)

\* The thread fetch is best effort: any failure gives the empty list.
fetch_email_thread(ticket_id, threadOk) ==
    IF threadOk THEN ThreadOf(ticket_id) ELSE <<>>

\* datetime.fromisoformat raises ValueError on anything that is no ISO date.
IsIsoFormat(s) == s \in {GoodDate, OldDate}

NewTicket(subject, content) ==
    [subject |-> subject, content |-> content, sentiment_score |-> NULL,
     sentiment_confidence |-> NoConfidence, sentiment_analyzed_at |-> NoTime]

\* Ticket.subject is NOT NULL: the INSERT or UPDATE of such a row fails.
FlushFails(row) == row.subject = NULL

Put(rows, id, row) ==
    [x \in DOMAIN rows \cup {id} |-> IF x = id THEN row ELSE rows[x]]

Bump(r, f) == [r EXCEPT ![f] = @ + 1]

----------------------------------------------------------------------------
\* The analyzer: OpenRouterAnalyzer.analyze_ticket under its retry decorator

\* stop_after_attempt(3)
MaxAttempts == 3

\* An absent key of the parsed JSON object.
MISSING == "MISSING"

\* SentimentScore
SentimentScores == {"very_negative", "negative", "neutral", "positive", "very_positive"}

Topic1 == [name |-> "Billing", confidence |-> 90]

\* A topic whose confidence is 1.2.
Topic2 == [name |-> "Outage", confidence |-> 120]

\* A parsed response body: {"sentiment": {"score", "confidence"}, "topics"}.
Parsed(hs, sc, cf, ht, tp) ==
    [kind |-> "json", has_sentiment |-> hs, score |-> sc, confidence |-> cf,
     has_topics |-> ht, topics |-> tp]

\* An attempt that ends before a JSON object is parsed.
Transport(k) ==
    [kind |-> k, has_sentiment |-> FALSE, score |-> MISSING,
     confidence |-> NoConfidence, has_topics |-> FALSE, topics |-> << >>]

\* What the backend can answer to one request.
Answers ==
    { Transport("network"),
      Transport("http_error"),
      Transport("not_json"),
      Parsed(FALSE, MISSING, NoConfidence, TRUE, << >>),
      Parsed(TRUE, "negative", 85, FALSE, << >>),
      Parsed(TRUE, "angry", 85, TRUE, << >>),
      Parsed(TRUE, "negative", 85, TRUE, << >>),
      Parsed(TRUE, "positive", 50, TRUE, <<Topic1>>),
      Parsed(TRUE, MISSING, NoConfidence, TRUE, << >>),
      Parsed(TRUE, "neutral", 0, TRUE, << >>),
      Parsed(TRUE, "very_positive", 100, TRUE, << >>),
      Parsed(TRUE, "negative", 150, TRUE, << >>),
      Parsed(TRUE, "negative", 0 - 20, TRUE, << >>),
      Parsed(TRUE, "positive", 50, TRUE, <<Topic1, Topic2>>) }

NoAnalysis == [sentiment |-> NULL, confidence |-> NoConfidence]

NoException == [kind |-> "", attempt |-> 0]

Raised(kind) == [ok |-> FALSE, error |-> kind, result |-> NoAnalysis]

Returned(res) == [ok |-> TRUE, error |-> "", result |-> res]

parse_analysis_result_TopicsOptional(parsed) ==
    IF ~parsed.has_sentiment THEN Raised("missing_sentiment")
    ELSE IF parsed.score \notin SentimentScores THEN Raised("invalid_score")
    ELSE Returned([sentiment |-> parsed.score, confidence |-> parsed.confidence])

\* Field(..., ge=0.0, le=1.0), confidences in hundredths.
ValidConfidence(c) == c >= 0 /\ c <= 100

parse_analysis_result_Unvalidated(parsed) ==
    IF ~parsed.has_sentiment THEN Raised("missing_sentiment")
    ELSE IF ~parsed.has_topics THEN Raised("missing_topics")
    ELSE LET score == IF parsed.score = MISSING THEN "neutral" ELSE parsed.score
             confidence == IF parsed.confidence = NoConfidence THEN 50
                           ELSE parsed.confidence
         IN  IF score \notin SentimentScores THEN Raised("invalid_score")
             ELSE Returned([sentiment |-> score, confidence |-> confidence,
                            topics |-> parsed.topics])

\* Lines 171-196: _parse_analysis_result.  The sentiment is built first
\* (the score, then the validation of its confidence), then the topics one
\* by one.
parse_analysis_result(parsed) ==
    IF ~parsed.has_sentiment THEN Raised("missing_sentiment")
    ELSE IF ~parsed.has_topics THEN Raised("missing_topics")
    ELSE LET score == IF parsed.score = MISSING THEN "neutral" ELSE parsed.score
             confidence == IF parsed.confidence = NoConfidence THEN 50
                           ELSE parsed.confidence
         IN  IF score \notin SentimentScores THEN Raised("invalid_score")
             ELSE IF ~ValidConfidence(confidence) THEN Raised("validation")
             ELSE IF \E k \in 1..Len(parsed.topics) :
                        ~ValidConfidence(parsed.topics[k].confidence)
             THEN Raised("validation")
             ELSE Returned([sentiment |-> score, confidence |-> confidence,
                            topics |-> parsed.topics])

\* Lines 62-110: one execution of the body of analyze_ticket.
analyze_once(answer) ==
    CASE answer.kind = "network" -> Raised("network")
      [] answer.kind = "http_error" -> Raised("http_status")
      [] answer.kind = "not_json" -> Raised("parse_failure")
      [] OTHER -> parse_analysis_result(answer)

StopAfterAttempt_OneMore(n) == n > MaxAttempts

\* stop=stop_after_attempt(3)
StopAfterAttempt(n) == n >= MaxAttempts

Summary(requests, outcome, cause, row) ==
    [requests |-> requests, outcome |-> outcome, cause |-> cause, row |-> row]

AnalyzerIdle ==
    /\ a_pc = "idle"
    /\ attempt = 0
    /\ trace = << >>
    /\ last_attempt = NoException
    /\ history = << >>
    /\ a_result = ZeroResult

----------------------------------------------------------------------------
\* _map_ticket_status.  Strings are sequences of characters here, so that
\* lower() and the substring tests are computed.

\* Longest pipeline-stage string, in pieces of StagePieces.
MaxPieces == 3

StagePieces ==
    { <<"N", "e", "w">>,
      <<"n", "e">>,
      <<"W">>,
      <<"W", "a", "i", "t", "i", "n", "g">>,
      <<" ", "o", "n", " ", "c", "u", "s", "t", "o", "m", "e", "r">>,
      <<"P", "E", "N", "D", "I", "N", "G">>,
      <<"C", "l", "o", "s", "e", "d">>,
      <<" ", "a", "n", "d", " ">>,
      <<"r", "e", "s", "o", "l", "v", "e", "d">>,
      <<"I", "n", " ", "P", "r", "o", "g", "r", "e", "s", "s">> }

\* str.lower() on one character.
LowerChar(c) ==
    CASE c = "A" -> "a" [] c = "B" -> "b" [] c = "C" -> "c" [] c = "D" -> "d"
      [] c = "E" -> "e" [] c = "F" -> "f" [] c = "G" -> "g" [] c = "H" -> "h"
      [] c = "I" -> "i" [] c = "J" -> "j" [] c = "K" -> "k" [] c = "L" -> "l"
      [] c = "M" -> "m" [] c = "N" -> "n" [] c = "O" -> "o" [] c = "P" -> "p"
      [] c = "Q" -> "q" [] c = "R" -> "r" [] c = "S" -> "s" [] c = "T" -> "t"
      [] c = "U" -> "u" [] c = "V" -> "v" [] c = "W" -> "w" [] c = "X" -> "x"
      [] c = "Y" -> "y" [] c = "Z" -> "z" [] OTHER -> c

Lower_Unchanged(str) == str

\* Line 425: hubspot_status.lower()
Lower(str) == [k \in 1..Len(str) |-> LowerChar(str[k])]

\* Python's `sub in str`.
Contains(str, sub) ==
    \E k \in 0..(Len(str) - Len(sub)) : SubSeq(str, k + 1, k + Len(sub)) = sub

W_new == <<"n", "e", "w">>
W_waiting == <<"w", "a", "i", "t", "i", "n", "g">>
W_pending == <<"p", "e", "n", "d", "i", "n", "g">>
W_closed == <<"c", "l", "o", "s", "e", "d">>
W_resolved == <<"r", "e", "s", "o", "l", "v", "e", "d">>

\* Lines 419-434.
map_ticket_status(hubspot_status) ==
    LET status_lower == Lower(hubspot_status)
    IN  IF Contains(status_lower, W_new) THEN "new"
        ELSE IF Contains(status_lower, W_waiting) \/ Contains(status_lower, W_pending)
        THEN "waiting"
        ELSE IF Contains(status_lower, W_closed) \/ Contains(status_lower, W_resolved)
        THEN "closed"
        ELSE "open"

RECURSIVE Flatten(_)
Flatten(pieces) ==
    IF pieces = << >> THEN << >> ELSE Head(pieces) \o Flatten(Tail(pieces))

\* Most emails of one ticket.
MaxEmails == 3

Email2 == [hs_timestamp |-> "2025-11-08T09:00:00Z", hs_email_direction |-> "EMAIL",
           hs_email_from |-> "b@y", hs_email_to |-> "a@x",
           hs_email_subject |-> "Hello", hs_email_text |-> "first", hs_email_html |-> ""]

\* Sent in the same second as Email1.
Email3 == [hs_timestamp |-> "2025-11-08T11:00:00Z", hs_email_direction |-> "EMAIL",
           hs_email_from |-> "b@y", hs_email_to |-> "a@x",
           hs_email_subject |-> "Re", hs_email_text |-> "other", hs_email_html |-> ""]

\* Without hs_timestamp.
Email4 == [hs_timestamp |-> "", hs_email_direction |-> "INCOMING_EMAIL",
           hs_email_from |-> "a@x", hs_email_to |-> "b@y",
           hs_email_subject |-> "", hs_email_text |-> "", hs_email_html |-> "undated"]

\* With "hs_timestamp": null, as the CRM returns a requested property that
\* has no value.
Email5 == [hs_timestamp |-> NULL, hs_email_direction |-> "EMAIL",
           hs_email_from |-> "c@z", hs_email_to |-> "a@x",
           hs_email_subject |-> "Note", hs_email_text |-> "unset", hs_email_html |-> ""]

ThreadEmails == {Email1, Email2, Email3, Email4, Email5}

\* hubspot.py line 306: the sort key, "0" for an email without the key and
\* None (NULL) for an email whose hs_timestamp is null.
SortKey(email) == IF email.hs_timestamp = "" THEN "0" ELSE email.hs_timestamp

\* Place of a sort key in the order of Python's string comparison.
KeyRank(key) ==
    CASE key = "0" -> 0
      [] key = "2025-11-08T09:00:00Z" -> 1
      [] key = "2025-11-08T11:00:00Z" -> 2
      [] OTHER -> 3

\* list.sort is stable: an element goes behind every element whose key is
\* not greater.
InsertByKey(sorted, email) ==
    LET n == Cardinality({k \in 1..Len(sorted) :
                            KeyRank(SortKey(sorted[k])) <= KeyRank(SortKey(email))})
    IN  SubSeq(sorted, 1, n) \o <<email>> \o SubSeq(sorted, n + 1, Len(sorted))

RECURSIVE SortedByTimestamp(_)
SortedByTimestamp(emails) ==
    IF emails = << >> THEN << >>
    ELSE InsertByKey(SortedByTimestamp(SubSeq(emails, 1, Len(emails) - 1)),
                     emails[Len(emails)])

\* list.sort compares the keys with <.  Sorting two or more elements
\* compares each of them with another one at least once, and None compared
\* with a str or with None raises TypeError.
SortRaises(emails) ==
    /\ Len(emails) >= 2
    /\ \E k \in 1..Len(emails) : SortKey(emails[k]) = NULL

\* hubspot.py lines 283-309: the emails in association order, then sorted.
get_ticket_email_thread(listed) ==
    IF SortRaises(listed)
    THEN [raised |-> TRUE, emails |-> << >>]
    ELSE [raised |-> FALSE, emails |-> SortedByTimestamp(listed)]

\* Lines 336-342: _fetch_email_thread on the emails the CRM lists; an
\* exception of get_ticket_email_thread gives the empty list.
fetch_listed_thread(listed) ==
    IF get_ticket_email_thread(listed).raised THEN << >>
    ELSE get_ticket_email_thread(listed).emails

NotAssembled == <<"NotAssembled">>

Tenants == {"A", "B"}

IntegrationRec(t, ty, token) == [tenant_id |-> t, type |-> ty, access_token |-> token]

NoIntegration == IntegrationRec(NULL, NULL, NULL)

\* The integrations the two tenants have connected.
ConnectedIntegrations ==
    { IntegrationRec("A", "hubspot", "a0"),
      IntegrationRec("B", "hubspot", "b0"),
      IntegrationRec("B", "zendesk", "z0") }

TenantsIdle ==
    /\ db_integrations = ConnectedIntegrations
    /\ db_tickets = << >>
    /\ r_pc = [t \in Tenants |-> "idle"]
    /\ r_integration = [t \in Tenants |-> NoIntegration]
    /\ r_batch = [t \in Tenants |-> << >>]
    /\ r_idx = [t \in Tenants |-> 1]
    /\ r_session = [t \in Tenants |-> << >>]
    /\ r_txn = [t \in Tenants |-> "active"]

LoopIdle ==
    /\ loop_items = 0
    /\ item_pos = << >>
    /\ item_attempt = << >>
    /\ io_log = << >>

HelpersIdle ==
    /\ stage = << >>
    /\ mapped = NULL
    /\ desc_in = ""
    /\ thread_in = << >>
    /\ content_out = NotAssembled

----------------------------------------------------------------------------
\* The run

Init ==
    /\ integration \in Integrations
    /\ tickets = << >>
    /\ staged = << >>
    /\ session_integration = integration
    /\ txn = "active"
    /\ source = << >>
    /\ pc = "idle"
    /\ error = ""
    /\ client = NULL
    /\ batch = << >>
    /\ idx = 1
    /\ result = ZeroResult
    /\ calls = NoCalls
    /\ events = << >>
    /\ before = NoSnapshot
    /\ days_back = DefaultDaysBack
    /\ repeated = FALSE
    /\ AnalyzerIdle
    /\ HelpersIdle
    /\ LoopIdle
    /\ TenantsIdle

\* The CRM's tickets change between two runs.
SourceChange ==
    /\ pc = "idle"
    /\ source' \in Batches \ {source}
    /\ repeated' = FALSE
    /\ UNCHANGED <<avars, fvars, lvars, tvars>>
    /\ UNCHANGED <<integration, tickets, staged, session_integration, txn, pc,
                   error, client, batch, idx, result, calls, events, before,
                   days_back>>

\* IntegrationStatus is a (str, Enum).  An f-string formats such a member as
\* its value on Python 3.10 and as ClassName.MEMBER from Python 3.11 on; the
\* code runs on both.
EnumFormats == {"value", "name"}

\* f"HubSpot integration is {integration.status}"
InactiveMessage(status, fmt) ==
    CASE status = "error" /\ fmt = "value" -> "HubSpot integration is error"
      [] status = "error" /\ fmt = "name" ->
            "HubSpot integration is IntegrationStatus.ERROR"
      [] status = "disconnected" /\ fmt = "value" ->
            "HubSpot integration is disconnected"
      [] status = "disconnected" /\ fmt = "name" ->
            "HubSpot integration is IntegrationStatus.DISCONNECTED"
      [] fmt = "name" -> "HubSpot integration is IntegrationStatus.ACTIVE"
      [] OTHER -> "HubSpot integration is active"

Precondition_WithoutStatusCheck(integ, fmt) ==
    IF ~integ.exists THEN "HubSpot integration not found"
    ELSE IF integ.credentials.access_token = NULL
         THEN "HubSpot access token not found in integration credentials"
    ELSE ""

\* Lines 69-78: the ValueError the run raises before it starts, "" if none.
Precondition(integ, fmt) ==
    IF ~integ.exists THEN "HubSpot integration not found"
    ELSE IF integ.status # "active" THEN InactiveMessage(integ.status, fmt)
    ELSE IF integ.credentials.access_token = NULL
         THEN "HubSpot access token not found in integration credentials"
    ELSE ""

\* A call of import_and_analyze_tickets with days_back among `values`: the
\* integration lookup and the three precondition checks.
StartRunWith(values) ==
    /\ pc = "idle"
    /\ before' = [tickets |-> tickets, integration |-> integration]
    /\ days_back' \in values
    /\ \E fmt \in EnumFormats :
         /\ error' = Precondition(session_integration, fmt)
         /\ pc' = IF Precondition(session_integration, fmt) = ""
                  THEN "fetch" ELSE "raised"
         /\ client' = IF Precondition(session_integration, fmt) = ""
                      THEN session_integration.credentials.access_token ELSE NULL
    /\ UNCHANGED <<avars, fvars, lvars, tvars>>
    /\ UNCHANGED <<integration, tickets, staged, session_integration, txn,
                   source, batch, idx, result, calls, events, repeated>>

\* A call that leaves days_back at its default.
StartRun == StartRunWith({DefaultDaysBack})

\* A call that passes days_back.
StartRunDaysBack == StartRunWith(DaysBackValues)

\* The caller has the ImportResult or the exception; the request is over
\* and its locals are gone.
Finish ==
    /\ pc \in {"done", "raised"}
    /\ repeated' = (pc = "done" /\ batch # << >> /\ result.analyzed = Len(batch))
    /\ pc' = "idle"
    /\ error' = ""
    /\ client' = NULL
    /\ batch' = << >>
    /\ idx' = 1
    /\ result' = ZeroResult
    /\ calls' = NoCalls
    /\ events' = << >>
    /\ before' = NoSnapshot
    /\ days_back' = DefaultDaysBack
    /\ UNCHANGED <<avars, fvars, lvars, tvars>>
    /\ UNCHANGED <<integration, tickets, staged, session_integration, txn, source>>

IsUnauthorized_AnyFailure(status) == status # "200"

\* Line 154: only a 401 of the search request is answered by a refresh.
IsUnauthorized(status) == status = "401"

HasRefreshToken_Always(credentials) == TRUE

\* Lines 157-158: the refresh token the Integration's credentials hold.
HasRefreshToken(credentials) == credentials.refresh_token # NULL

\* Lines 147-159 and 178-179: the first search request and what its
\* failure leads to.
SearchTickets ==
    /\ pc = "fetch"
    /\ \E status \in {"200", "401", "500", "network"} :
         /\ calls' = [calls EXCEPT !.search = Append(@, SearchRequest(client)),
                                   !.answers = Append(@, status)]
         /\ IF status = "200"
            THEN /\ batch' = source
                 /\ pc' = "loop"
                 /\ error' = ""
            ELSE /\ batch' = batch
                 /\ IF IsUnauthorized(status)
                    THEN IF ~HasRefreshToken(session_integration.credentials)
                         THEN /\ pc' = "raised"
                              /\ error' = "No refresh token available"
                         ELSE /\ pc' = "refresh"
                              /\ error' = ""
                    ELSE /\ pc' = "raised"
                         /\ error' = status
    /\ UNCHANGED <<avars, fvars, lvars, tvars>>
    /\ UNCHANGED <<integration, tickets, staged, session_integration, txn,
                   source, client, idx, result, events, before, days_back,
                   repeated>>

CommitCredentials_Deferred(committed, in_session) == committed

\* Line 167: the commit right after the credentials are set makes the
\* session's Integration the committed one.
CommitCredentials(committed, in_session) == in_session

\* Lines 161-169: refresh_access_token, then the credentials are written
\* onto the Integration and committed at once.
RefreshToken ==
    /\ pc = "refresh"
    /\ \E outcome \in {"ok", "refresh_failed", "commit_failed"}, now \in RefreshTimes :
         LET updated == [session_integration EXCEPT !.credentials = NewTokens,
                                                    !.last_synced_at = now]
         IN  /\ calls' = [calls EXCEPT !.refresh = @ + 1,
                             !.commit = IF outcome = "refresh_failed" THEN @ ELSE @ + 1]
             /\ IF outcome = "ok"
                THEN /\ session_integration' = updated
                     /\ integration' = CommitCredentials(integration, updated)
                     /\ pc' = "retry"
                     /\ error' = ""
                ELSE /\ session_integration' = session_integration
                     /\ integration' = integration
                     /\ pc' = "raised"
                     /\ error' = outcome
    /\ UNCHANGED <<avars, fvars, lvars, tvars>>
    /\ UNCHANGED <<tickets, staged, txn, source, client, batch, idx, result,
                   events, before, days_back, repeated>>

AfterRetryFailure_RefreshingAgain(status) ==
    IF status = "401" THEN "refresh" ELSE "raised"

\* Lines 173-177 stand in no try block: whatever the retried search
\* raises, a second 401 included, leaves _fetch_recent_tickets.
AfterRetryFailure(status) == "raised"

\* Lines 171-177: the same search again with a client built on the new
\* token.
RetrySearch ==
    /\ pc = "retry"
    /\ \E status \in {"200", "401", "500", "network"} :
         /\ calls' = [calls EXCEPT
                         !.search = Append(@, SearchRequest(
                                       session_integration.credentials.access_token)),
                         !.answers = Append(@, status)]
         /\ IF status = "200"
            THEN /\ batch' = source
                 /\ pc' = "loop"
                 /\ error' = ""
            ELSE /\ batch' = batch
                 /\ pc' = AfterRetryFailure(status)
                 /\ error' = IF AfterRetryFailure(status) = "raised" THEN status ELSE ""
    /\ UNCHANGED <<avars, fvars, lvars, tvars>>
    /\ UNCHANGED <<integration, tickets, staged, session_integration, txn,
                   source, client, idx, result, events, before, days_back,
                   repeated>>

NeedsAnalysis_IgnoringSentiment(ticket, content) == content # << >>

NeedsAnalysis_Always(ticket, content) == TRUE

NeedsAnalysis_IgnoringContent(ticket, content) == ticket.sentiment_score = NULL

\* Line 296: the classifier is called for a ticket without sentiment whose
\* content is not empty.
NeedsAnalysis(ticket, content) ==
    ticket.sentiment_score = NULL /\ content # << >>

ApplyAnalysis_WithoutTimestamp(ticket, analysis, now) ==
    [ticket EXCEPT !.sentiment_score = analysis.sentiment,
                   !.sentiment_confidence = analysis.confidence]

\* Lines 303-305.
ApplyAnalysis(ticket, analysis, now) ==
    [ticket EXCEPT !.sentiment_score = analysis.sentiment,
                   !.sentiment_confidence = analysis.confidence,
                   !.sentiment_analyzed_at = now]

Upsert_ResettingSentiment(rows, external_id, subject, content) ==
    NewTicket(subject, content)

Upsert_KeepingAnalyzed(rows, external_id, subject, content) ==
    IF external_id \in DOMAIN rows
    THEN IF rows[external_id].sentiment_score # NULL
         THEN rows[external_id]
         ELSE [rows[external_id] EXCEPT !.subject = subject, !.content = content]
    ELSE NewTicket(subject, content)

ExistingTicket_CommittedOnly(rows, external_id) == external_id \in DOMAIN tickets

\* Lines 256 and 263: the lookup runs inside the session's transaction and
\* finds the rows the run has flushed as well as the committed ones.
ExistingTicket(rows, external_id) == external_id \in DOMAIN rows

\* Lines 263-290: the row after the upsert, before the flush.
Upsert(rows, external_id, subject, content) ==
    IF external_id \in DOMAIN rows
    THEN [rows[external_id] EXCEPT !.subject = subject, !.content = content]
    ELSE NewTicket(subject, content)

\* Lines 248-253: the deep link carries the hub id the credentials hold, and
\* falls back to the basic form when they hold none.
external_url(credentials, external_id) ==
    IF credentials.hub_id # NULL
    THEN <<"help-desk", credentials.hub_id, "view/search/ticket", external_id>>
    ELSE <<"contacts/ticket", external_id>>

HasExternalId_Always(item) == TRUE

\* Lines 211-213: `if not external_id` takes a missing, null or empty id.
HasExternalId(item) == item.id # ""

\* Lines 97-99: what the loop does with an exception of one item.
OnItemError(r) == Bump(r, "failed")

OnAnalysisError_Uncounted(r) == r

OnAnalysisError_CountedTwice(r) == Bump(Bump(r, "failed"), "failed")

\* Lines 313-315: what _process_ticket does with an exception of the analyzer.
OnAnalysisError(r) == Bump(r, "failed")

OnThreadError_Counted(r) == Bump(r, "failed")

\* Lines 340-342: the except clause of _fetch_email_thread logs a warning
\* and returns []; the counters stay as they are.
OnThreadError(r) == r

Outcome(rows, t, r, ev, c) ==
    [staged |-> rows, txn |-> t, result |-> r, event |-> ev, calls |-> c]

\* _process_ticket for one item, with the except clause of the loop around
\* it.  threadOk: the thread fetch succeeded; analysis: what the analyzer
\* answers if it is called; now: the clock read at line 305.
\* An event keeps, beside the id and what became of the item, the access
\* token of the client the thread fetch of line 225 was made with (the
\* client line 96 passes) and the deep link built for the row.
process_ticket(item, threadOk, analysis, now) ==
    LET external_id == item.id
        subject == item.subject
        email_thread == fetch_email_thread(external_id, threadOk)
        content == build_ticket_content(subject, item.content, email_thread)
        fetched == Bump(calls, "thread")
        after_fetch == IF threadOk THEN result ELSE OnThreadError(result)
        existing == ExistingTicket(staged, external_id)
        ticket == Upsert(staged, external_id, subject, content)
        counted == IF existing THEN after_fetch ELSE Bump(after_fetch, "imported")
        flushed == Bump(fetched, "flush")
        Ev(kind) ==
            [id |-> external_id, kind |-> kind,
             token |-> IF kind = "no_id" THEN NULL ELSE client,
             url |-> IF kind \in {"no_id", "bad_date", "pending_rollback"} THEN NULL
                     ELSE external_url(session_integration.credentials, external_id)]
    IN  IF ~HasExternalId(item)
        THEN \* lines 213-216
             Outcome(staged, txn, Bump(result, "failed"), Ev("no_id"), calls)
        ELSE IF ~IsIsoFormat(item.createdate)
        THEN \* line 238 raises ValueError
             Outcome(staged, txn, OnItemError(after_fetch), Ev("bad_date"), fetched)
        ELSE IF txn = "inactive"
        THEN \* line 256: the session refuses SQL until it is rolled back
             Outcome(staged, txn, OnItemError(after_fetch), Ev("pending_rollback"), fetched)
        ELSE IF FlushFails(ticket)
        THEN \* line 293 raises; the failed flush rolls the transaction back
             Outcome(tickets, "inactive", OnItemError(counted), Ev("flush_error"), flushed)
        ELSE IF NeedsAnalysis(ticket, content)
        THEN IF analysis = AnalysisFailed
             THEN Outcome(Put(staged, external_id, ticket), txn,
                          OnAnalysisError(counted), Ev("analysis_failed"),
                          Bump(flushed, "classify"))
             ELSE Outcome(Put(staged, external_id, ApplyAnalysis(ticket, analysis, now)),
                          txn, Bump(counted, "analyzed"), Ev("analyzed"),
                          Bump(flushed, "classify"))
        ELSE IF ticket.sentiment_score # NULL
        THEN Outcome(Put(staged, external_id, ticket), txn,
                     Bump(counted, "skipped"), Ev("skipped"), flushed)
        ELSE Outcome(Put(staged, external_id, ticket), txn, counted,
                     Ev("no_content"), flushed)

DurableAfterItem_Committing(committed, in_session) == in_session

\* Line 293 flushes and does not commit: an item leaves the committed rows
\* as they are.
DurableAfterItem(committed, in_session) == committed

\* Lines 93-99: one iteration of the loop.
ProcessTicket ==
    /\ pc = "loop"
    /\ idx <= Len(batch)
    /\ \E threadOk \in BOOLEAN, obs \in Observations :
         LET out == process_ticket(batch[idx], threadOk, obs[1], obs[2])
         IN  /\ staged' = out.staged
             /\ txn' = out.txn
             /\ result' = out.result
             /\ calls' = out.calls
             /\ events' = Append(events, out.event)
             /\ tickets' = DurableAfterItem(tickets, out.staged)
             /\ session_integration' =
                    IF txn = "active" /\ out.txn = "inactive"
                    THEN integration ELSE session_integration
    /\ idx' = idx + 1
    /\ UNCHANGED <<avars, fvars, lvars, tvars>>
    /\ UNCHANGED <<integration, source, pc, error, client, batch, before,
                   days_back, repeated>>

CommitSucceeds_IgnoringTransaction(dbOk) == dbOk

\* Line 104: the commit succeeds only on a session whose transaction is
\* still usable, and then only if the database accepts it.
CommitSucceeds(dbOk) == dbOk /\ txn = "active"

Rollback_Missing == staged

\* Line 108: rollback discards everything the session staged.
Rollback == tickets

\* Lines 101-112: the single commit after the loop; on failure rollback and
\* re-raise.
CommitRun ==
    /\ pc = "loop"
    /\ idx > Len(batch)
    /\ \E dbOk \in BOOLEAN :
         IF CommitSucceeds(dbOk)
         THEN /\ tickets' = staged
              /\ staged' = staged
              /\ integration' = session_integration
              /\ session_integration' = session_integration
              /\ calls' = Bump(calls, "commit")
              /\ pc' = "done"
              /\ error' = ""
         ELSE /\ tickets' = tickets
              /\ staged' = Rollback
              /\ integration' = integration
              /\ session_integration' = integration
              /\ calls' = Bump(Bump(calls, "commit"), "rollback")
              /\ pc' = "raised"
              /\ error' = IF txn = "active" THEN "commit" ELSE "pending_rollback"
    /\ txn' = "active"
    /\ UNCHANGED <<avars, fvars, lvars, tvars>>
    /\ UNCHANGED <<source, client, batch, idx, result, events, before,
                   days_back, repeated>>

Next ==
    \/ SourceChange
    \/ StartRun
    \/ SearchTickets
    \/ RefreshToken
    \/ RetrySearch
    \/ ProcessTicket
    \/ CommitRun
    \/ Finish

Spec == Init /\ [][Next]_vars

----------------------------------------------------------------------------
\* api/routers/tickets.py: the POST /tickets/import endpoint around the run

\* The exceptions of the run that are ValueErrors: those of lines 70, 73, 78
\* and 159.  The others are errors of httpx and of SQLAlchemy.
ValueErrors ==
    { "HubSpot integration not found",
      "HubSpot access token not found in integration credentials",
      "No refresh token available" }
    \cup {InactiveMessage(st, fmt) : st \in {"error", "disconnected"}, fmt \in EnumFormats}

\* str(e), character by character.
MessageText(err) ==
    CASE err = "HubSpot integration not found" ->
            <<"H", "u", "b", "S", "p", "o", "t", " ", "i", "n", "t", "e",
              "g", "r", "a", "t", "i", "o", "n", " ", "n", "o", "t", " ",
              "f", "o", "u", "n", "d">>
      [] err = "HubSpot integration is error" ->
            <<"H", "u", "b", "S", "p", "o", "t", " ", "i", "n", "t", "e",
              "g", "r", "a", "t", "i", "o", "n", " ", "i", "s", " ", "e",
              "r", "r", "o", "r">>
      [] err = "HubSpot integration is disconnected" ->
            <<"H", "u", "b", "S", "p", "o", "t", " ", "i", "n", "t", "e",
              "g", "r", "a", "t", "i", "o", "n", " ", "i", "s", " ", "d",
              "i", "s", "c", "o", "n", "n", "e", "c", "t", "e", "d">>
      [] err = "HubSpot integration is IntegrationStatus.ERROR" ->
            <<"H", "u", "b", "S", "p", "o", "t", " ", "i", "n", "t", "e",
              "g", "r", "a", "t", "i", "o", "n", " ", "i", "s", " ", "I",
              "n", "t", "e", "g", "r", "a", "t", "i", "o", "n", "S", "t",
              "a", "t", "u", "s", ".", "E", "R", "R", "O", "R">>
      [] err = "HubSpot integration is IntegrationStatus.DISCONNECTED" ->
            <<"H", "u", "b", "S", "p", "o", "t", " ", "i", "n", "t", "e",
              "g", "r", "a", "t", "i", "o", "n", " ", "i", "s", " ", "I",
              "n", "t", "e", "g", "r", "a", "t", "i", "o", "n", "S", "t",
              "a", "t", "u", "s", ".", "D", "I", "S", "C", "O", "N", "N",
              "E", "C", "T", "E", "D">>
      [] err = "HubSpot access token not found in integration credentials" ->
            <<"H", "u", "b", "S", "p", "o", "t", " ", "a", "c", "c", "e",
              "s", "s", " ", "t", "o", "k", "e", "n", " ", "n", "o", "t",
              " ", "f", "o", "u", "n", "d", " ", "i", "n", " ", "i", "n",
              "t", "e", "g", "r", "a", "t", "i", "o", "n", " ", "c", "r",
              "e", "d", "e", "n", "t", "i", "a", "l", "s">>
      [] err = "No refresh token available" ->
            <<"N", "o", " ", "r", "e", "f", "r", "e", "s", "h", " ", "t",
              "o", "k", "e", "n", " ", "a", "v", "a", "i", "l", "a", "b",
              "l", "e">>
      [] OTHER -> << >>

W_not_found == <<"n", "o", "t", " ", "f", "o", "u", "n", "d">>
W_inactive == <<"i", "n", "a", "c", "t", "i", "v", "e">>
W_status == <<"s", "t", "a", "t", "u", "s">>

ErrorResponse(code) == [status_code |-> code]

\* Lines 39-69: the response for a run that returned (run_pc = "done") the
\* counters res or raised err.
import_tickets(run_pc, err, res) ==
    IF run_pc = "done"
    THEN [status_code |-> 200, counters |-> res]
    ELSE IF err \in ValueErrors
    THEN LET error_msg == Lower(MessageText(err))
         IN  IF Contains(error_msg, W_not_found) THEN ErrorResponse(404)
             ELSE IF Contains(error_msg, W_inactive) \/ Contains(error_msg, W_status)
             THEN ErrorResponse(401)
             ELSE ErrorResponse(400)
    ELSE ErrorResponse(500)

\* What the endpoint answers once the run is over.
Response == import_tickets(pc, error, result)

----------------------------------------------------------------------------
\* One run per behaviour, called with days_back, on any source batch.

InitDaysBack ==
    /\ Init
    /\ integration = IntegrationRow(TRUE, "active", Credentials("a0", "r0", "h"))

NextDaysBack ==
    \/ SourceChange
    \/ StartRunDaysBack
    \/ SearchTickets
    \/ RefreshToken
    \/ RetrySearch
    \/ ProcessTicket
    \/ CommitRun

SpecDaysBack == InitDaysBack /\ [][NextDaysBack]_vars

----------------------------------------------------------------------------
\* The analyzer calls of a run: lines 296-315 of _process_ticket around
\* analyze_ticket and its retry decorator, for the tickets of one batch.

\* The row the analysis is written to.
AnalyzedRow == NewTicket("s1", <<"Initial Description:", "d1">>)

FirstAttempt_SharedBudget(earlier) ==
    IF earlier # << >> /\ earlier[Len(earlier)].outcome = "retry_error"
    THEN MaxAttempts ELSE 1

\* The decorator starts a retry state of its own for every call.
FirstAttempt(earlier) == 1

RetryErrorCause_FirstFailure(previous, failure) ==
    IF previous = NoException THEN failure ELSE previous

\* RetryError carries the attempt that failed last.
RetryErrorCause(previous, failure) == failure

InitAnalyzer ==
    /\ Init
    /\ integration = IntegrationRow(TRUE, "active", Credentials("a0", "r0", "h"))

\* Line 298: the loop calls analyze_ticket for a ticket that needs analysis.
AnalyzeTicket ==
    /\ a_pc = "idle"
    /\ Len(history) < MaxBatch
    /\ a_pc' = "attempt"
    /\ attempt' = FirstAttempt(history)
    /\ trace' = << >>
    /\ last_attempt' = NoException
    /\ UNCHANGED <<history, a_result>>
    /\ UNCHANGED <<runvars, fvars, lvars, tvars>>

\* One attempt: the request, the parsing of its answer, and what the
\* decorator and lines 303-315 do with the outcome.
AnalyzeAttempt ==
    /\ a_pc = "attempt"
    /\ \E answer \in Answers :
         LET out == analyze_once(answer)
             failure == [kind |-> out.error, attempt |-> attempt]
             requests == Len(trace) + 1
         IN  /\ trace' = Append(trace, answer)
             /\ IF out.ok
                THEN /\ a_pc' = "idle"
                     /\ attempt' = attempt
                     /\ last_attempt' = last_attempt
                     /\ history' = Append(history,
                            Summary(requests, "returned", NoException,
                                    ApplyAnalysis(AnalyzedRow, out.result, 1)))
                     /\ a_result' = Bump(a_result, "analyzed")
                ELSE IF StopAfterAttempt(attempt)
                THEN /\ a_pc' = "idle"
                     /\ attempt' = attempt
                     /\ last_attempt' = failure
                     /\ history' = Append(history,
                            Summary(requests, "retry_error",
                                    RetryErrorCause(last_attempt, failure),
                                    AnalyzedRow))
                     /\ a_result' = OnAnalysisError(a_result)
                ELSE /\ a_pc' = "attempt"
                     /\ attempt' = attempt + 1
                     /\ last_attempt' = failure
                     /\ UNCHANGED <<history, a_result>>
    /\ UNCHANGED <<runvars, fvars, lvars, tvars>>

NextAnalyzer ==
    \/ AnalyzeTicket
    \/ AnalyzeAttempt

SpecAnalyzer == InitAnalyzer /\ [][NextAnalyzer]_vars

----------------------------------------------------------------------------
\* _map_ticket_status applied to pipeline-stage strings

InitStatus ==
    /\ Init
    /\ integration = IntegrationRow(TRUE, "active", Credentials("a0", "r0", "h"))

\* Line 221: an item carries one more piece of pipeline-stage text.
StageExtend ==
    /\ Len(stage) < MaxPieces
    /\ \E piece \in StagePieces : stage' = Append(stage, piece)
    /\ mapped' = NULL
    /\ UNCHANGED <<desc_in, thread_in, content_out>>
    /\ UNCHANGED <<runvars, avars, lvars, tvars>>

\* Line 231: status = self._map_ticket_status(status_str)
MapTicketStatus ==
    /\ mapped = NULL
    /\ mapped' = map_ticket_status(Flatten(stage))
    /\ UNCHANGED <<stage, desc_in, thread_in, content_out>>
    /\ UNCHANGED <<runvars, avars, lvars, tvars>>

NextStatus ==
    \/ StageExtend
    \/ MapTicketStatus

SpecStatus == InitStatus /\ [][NextStatus]_vars

----------------------------------------------------------------------------
\* The content of one ticket: the thread as get_ticket_email_thread sorts
\* it, assembled by _build_ticket_content

InitContent ==
    /\ Init
    /\ integration = IntegrationRow(TRUE, "active", Credentials("a0", "r0", "h"))

\* hubspot.py lines 283-296: the CRM lists one more email for the ticket.
ListEmail ==
    /\ Len(thread_in) < MaxEmails
    /\ \E email \in ThreadEmails :
         /\ \A k \in 1..Len(thread_in) : thread_in[k] # email
         /\ thread_in' = Append(thread_in, email)
    /\ content_out' = NotAssembled
    /\ UNCHANGED <<stage, mapped, desc_in>>
    /\ UNCHANGED <<runvars, avars, lvars, tvars>>

\* Line 220: the ticket has a description or none.
SetDescription ==
    /\ desc_in' \in {"", "d1"} \ {desc_in}
    /\ content_out' = NotAssembled
    /\ UNCHANGED <<stage, mapped, thread_in>>
    /\ UNCHANGED <<runvars, avars, lvars, tvars>>

\* Lines 225-228: fetch the thread, assemble the content.
AssembleContent ==
    /\ content_out = NotAssembled
    /\ content_out' = build_ticket_content("s1", desc_in,
                                           fetch_listed_thread(thread_in))
    /\ UNCHANGED <<stage, mapped, desc_in, thread_in>>
    /\ UNCHANGED <<runvars, avars, lvars, tvars>>

NextContent ==
    \/ ListEmail
    \/ SetDescription
    \/ AssembleContent

SpecContent == InitContent /\ [][NextContent]_vars

----------------------------------------------------------------------------
\* The loop over the batch: lines 93-99, with _process_ticket split at its
\* awaits (the thread fetch at line 225, the analyzer call at line 298 and
\* the attempts of that call).

InitLoop ==
    /\ Init
    /\ integration = IntegrationRow(TRUE, "active", Credentials("a0", "r0", "h"))

\* How _process_ticket of an item ends.
ItemEnds == {"raised", "skipped", "no_content", "analyzed", "failed"}

IO(k, what) == [item |-> k, io |-> what]

\* Line 85: the batch is fetched.
FetchBatch ==
    /\ loop_items = 0
    /\ \E n \in 1..MaxBatch :
         /\ loop_items' = n
         /\ item_pos' = [k \in 1..n |-> "waiting"]
         /\ item_attempt' = [k \in 1..n |-> 0]
    /\ io_log' = << >>
    /\ UNCHANGED <<runvars, avars, fvars, tvars>>

MayStart_Gathered(pos, k) == pos[k] = "waiting"

\* Lines 93-96: the for statement takes item k when the await of
\* _process_ticket of item k - 1 has returned or raised.
MayStart(pos, k) ==
    /\ pos[k] = "waiting"
    /\ \A j \in 1..(k - 1) : pos[j] \in ItemEnds

\* Lines 96 and 225: _process_ticket of the item is called and awaits the
\* thread fetch.
StartItem ==
    /\ \E k \in 1..loop_items :
         /\ MayStart(item_pos, k)
         /\ item_pos' = [item_pos EXCEPT ![k] = "thread"]
         /\ io_log' = Append(io_log, IO(k, "thread"))
    /\ UNCHANGED <<loop_items, item_attempt>>
    /\ UNCHANGED <<runvars, avars, fvars, tvars>>

\* Lines 225-298 and 316-319: the thread fetch is back; the date is parsed,
\* the ticket looked up, upserted and flushed, and the analyzer is called
\* or not.
UpsertItem ==
    /\ \E k \in 1..loop_items, next \in {"raised", "skipped", "no_content", "classify"} :
         /\ item_pos[k] = "thread"
         /\ item_pos' = [item_pos EXCEPT ![k] = next]
         /\ item_attempt' = [item_attempt EXCEPT ![k] = IF next = "classify" THEN 1 ELSE 0]
         /\ io_log' = io_log
                \o (IF next = "raised" THEN << >> ELSE <<IO(k, "lookup")>>)
                \o (IF next = "classify" THEN <<IO(k, "request")>> ELSE << >>)
    /\ UNCHANGED loop_items
    /\ UNCHANGED <<runvars, avars, fvars, tvars>>

\* An attempt of the analyzer call of an item ends: the call returns, or it
\* is given up, or the decorator sleeps (wait_exponential) before the next
\* attempt.
AttemptEnds ==
    /\ \E k \in 1..loop_items, ok \in BOOLEAN :
         /\ item_pos[k] = "classify"
         /\ item_pos' = [item_pos EXCEPT ![k] =
                IF ok THEN "analyzed"
                ELSE IF StopAfterAttempt(item_attempt[k]) THEN "failed"
                ELSE "backoff"]
    /\ UNCHANGED <<loop_items, item_attempt, io_log>>
    /\ UNCHANGED <<runvars, avars, fvars, tvars>>

\* The sleep is over: the next attempt sends its request.
RetryAttempt ==
    /\ \E k \in 1..loop_items :
         /\ item_pos[k] = "backoff"
         /\ item_pos' = [item_pos EXCEPT ![k] = "classify"]
         /\ item_attempt' = [item_attempt EXCEPT ![k] = @ + 1]
         /\ io_log' = Append(io_log, IO(k, "request"))
    /\ UNCHANGED loop_items
    /\ UNCHANGED <<runvars, avars, fvars, tvars>>

\* Lines 101-112: the loop is over, the run commits and returns.
LoopEnds ==
    /\ loop_items > 0
    /\ \A k \in 1..loop_items : item_pos[k] \in ItemEnds
    /\ loop_items' = 0
    /\ item_pos' = << >>
    /\ item_attempt' = << >>
    /\ io_log' = << >>
    /\ UNCHANGED <<runvars, avars, fvars, tvars>>

NextLoop ==
    \/ FetchBatch
    \/ StartItem
    \/ UpsertItem
    \/ AttemptEnds
    \/ RetryAttempt
    \/ LoopEnds

SpecLoop == InitLoop /\ [][NextLoop]_vars

----------------------------------------------------------------------------
\* Runs of two tenants, interleaved at their awaits.  Both tenants' CRMs
\* number their tickets alike, so the same external ids come in for both.

InitTenants ==
    /\ Init
    /\ integration = IntegrationRow(TRUE, "active", Credentials("a0", "r0", "h"))

\* Source items of a tenant: {id, properties{subject}}.
TenantItems ==
    { [id |-> "t1", subject |-> "s1"],
      [id |-> "t1", subject |-> "s2"] }

TenantBatches == SeqsUpTo(TenantItems, MaxBatch)

\* Ticket.id: a UUID of its own for every row that is created.
RowIds == 1..8

TicketRec(tenant_id, external_id, subject) ==
    [tenant_id |-> tenant_id, external_id |-> external_id, subject |-> subject,
     sentiment_score |-> NULL]

\* The rows a session sees: the committed ones under its own writes.
Overlay(committed, pending) ==
    [i \in DOMAIN committed \cup DOMAIN pending |->
        IF i \in DOMAIN pending THEN pending[i] ELSE committed[i]]

\* Lines 116-121: the rows the select of _get_hubspot_integration matches.
get_hubspot_integration(rows, tenant_id) ==
    {r \in rows : r.tenant_id = tenant_id /\ r.type = "hubspot"}

get_ticket_by_external_id_AnyTenant(rows, tenant_id, external_id) ==
    {i \in DOMAIN rows : rows[i].external_id = external_id}

get_ticket_by_external_id_NeverFound(rows, tenant_id, external_id) == {}

\* Lines 412-417: the ids of the rows the select of
\* _get_ticket_by_external_id matches.
get_ticket_by_external_id(rows, tenant_id, external_id) ==
    {i \in DOMAIN rows :
        rows[i].tenant_id = tenant_id /\ rows[i].external_id = external_id}

\* models/ticket.py line 29: the unique index on (tenant_id, external_id)
\* refuses the row.
UniqueViolation(rows, id, row) ==
    \E j \in DOMAIN rows :
        /\ j # id
        /\ rows[j].tenant_id = row.tenant_id
        /\ rows[j].external_id = row.external_id

UsedRowIds == DOMAIN db_tickets \cup UNION {DOMAIN r_session[u] : u \in Tenants}

NewRowId == CHOOSE i \in RowIds \ UsedRowIds : \A j \in RowIds \ UsedRowIds : i <= j

\* Lines 68-80: the run of tenant t loads its Integration.
TenantStartRun(t) ==
    /\ r_pc[t] = "idle"
    /\ LET found == get_hubspot_integration(db_integrations, t)
       IN  IF found = {}
           THEN /\ r_pc' = [r_pc EXCEPT ![t] = "raised"]
                /\ UNCHANGED r_integration
           ELSE /\ r_pc' = [r_pc EXCEPT ![t] = "fetch"]
                /\ r_integration' = [r_integration EXCEPT ![t] = CHOOSE r \in found : TRUE]
    /\ UNCHANGED <<db_integrations, db_tickets, r_batch, r_idx, r_session, r_txn>>
    /\ UNCHANGED <<runvars, avars, fvars, lvars>>

\* Lines 147-177: the search, answered at once or after a 401, a token
\* refresh written onto the loaded Integration and committed, and a retry.
TenantFetch(t) ==
    /\ r_pc[t] = "fetch"
    /\ \E b \in TenantBatches, unauthorized \in BOOLEAN :
         LET loaded == r_integration[t]
             updated == [loaded EXCEPT !.access_token = NewTokens.access_token]
         IN  /\ r_batch' = [r_batch EXCEPT ![t] = b]
             /\ IF unauthorized
                THEN /\ r_integration' = [r_integration EXCEPT ![t] = updated]
                     /\ db_integrations' =
                            {r \in db_integrations :
                                r.tenant_id # loaded.tenant_id \/ r.type # loaded.type}
                            \cup {updated}
                ELSE UNCHANGED <<r_integration, db_integrations>>
    /\ r_idx' = [r_idx EXCEPT ![t] = 1]
    /\ r_pc' = [r_pc EXCEPT ![t] = "loop"]
    /\ UNCHANGED <<db_tickets, r_session, r_txn>>
    /\ UNCHANGED <<runvars, avars, fvars, lvars>>

\* Lines 303-305 on a row of this table.
SetSentiment(row, analysis) ==
    IF row.sentiment_score = NULL /\ analysis # NULL
    THEN [row EXCEPT !.sentiment_score = analysis] ELSE row

\* Lines 256-319 for the next item of the run of tenant t: the lookup, the
\* update of the row found or the insert of a new one, the flush, the
\* analysis.
TenantProcessTicket(t) ==
    /\ r_pc[t] = "loop"
    /\ r_idx[t] <= Len(r_batch[t])
    /\ \E analysis \in {"negative", NULL} :
         LET item == r_batch[t][r_idx[t]]
             view == Overlay(db_tickets, r_session[t])
             found == get_ticket_by_external_id(view, t, item.id)
             id == IF found = {} THEN NewRowId ELSE CHOOSE i \in found : TRUE
             row == IF found = {} THEN TicketRec(t, item.id, item.subject)
                    ELSE [view[id] EXCEPT !.subject = item.subject]
         IN  IF r_txn[t] = "inactive" \/ Cardinality(found) > 1
             THEN \* PendingRollbackError, MultipleResultsFound
                  UNCHANGED <<r_session, r_txn>>
             ELSE IF UniqueViolation(view, id, row)
             THEN \* IntegrityError at the flush
                  /\ r_session' = [r_session EXCEPT ![t] = << >>]
                  /\ r_txn' = [r_txn EXCEPT ![t] = "inactive"]
             ELSE /\ r_session' = [r_session EXCEPT ![t] =
                                      Put(@, id, SetSentiment(row, analysis))]
                  /\ UNCHANGED r_txn
    /\ r_idx' = [r_idx EXCEPT ![t] = @ + 1]
    /\ UNCHANGED <<db_integrations, db_tickets, r_pc, r_integration, r_batch>>
    /\ UNCHANGED <<runvars, avars, fvars, lvars>>

\* Lines 101-112: the commit of the run of tenant t, or its rollback.
TenantCommit(t) ==
    /\ r_pc[t] = "loop"
    /\ r_idx[t] > Len(r_batch[t])
    /\ \E dbOk \in BOOLEAN :
         IF dbOk /\ r_txn[t] = "active"
         THEN /\ db_tickets' = Overlay(db_tickets, r_session[t])
              /\ r_pc' = [r_pc EXCEPT ![t] = "done"]
         ELSE /\ UNCHANGED db_tickets
              /\ r_pc' = [r_pc EXCEPT ![t] = "raised"]
    /\ r_session' = [r_session EXCEPT ![t] = << >>]
    /\ r_txn' = [r_txn EXCEPT ![t] = "active"]
    /\ UNCHANGED <<db_integrations, r_integration, r_batch, r_idx>>
    /\ UNCHANGED <<runvars, avars, fvars, lvars>>

\* The caller has the result or the exception.
TenantFinish(t) ==
    /\ r_pc[t] \in {"done", "raised"}
    /\ r_pc' = [r_pc EXCEPT ![t] = "idle"]
    /\ r_integration' = [r_integration EXCEPT ![t] = NoIntegration]
    /\ r_batch' = [r_batch EXCEPT ![t] = << >>]
    /\ r_idx' = [r_idx EXCEPT ![t] = 1]
    /\ UNCHANGED <<db_integrations, db_tickets, r_session, r_txn>>
    /\ UNCHANGED <<runvars, avars, fvars, lvars>>

NextTenants ==
    \E t \in Tenants :
        \/ TenantStartRun(t)
        \/ TenantFetch(t)
        \/ TenantProcessTicket(t)
        \/ TenantCommit(t)
        \/ TenantFinish(t)

SpecTenants == InitTenants /\ [][NextTenants]_vars

----------------------------------------------------------------------------
\* Properties

InRun == pc \in {"fetch", "refresh", "retry", "loop"}

BatchIds == {batch[k].id : k \in 1..Len(batch)}

HasSentiment(row) ==
    /\ row.sentiment_score # NULL
    /\ row.sentiment_confidence # NoConfidence
    /\ row.sentiment_analyzed_at # NoTime

NoSentiment(row) ==
    /\ row.sentiment_score = NULL
    /\ row.sentiment_confidence = NoConfidence
    /\ row.sentiment_analyzed_at = NoTime

SameSentiment(a, b) ==
    /\ a.sentiment_score = b.sentiment_score
    /\ a.sentiment_confidence = b.sentiment_confidence
    /\ a.sentiment_analyzed_at = b.sentiment_analyzed_at

EventsOf(kinds) == {k \in 1..Len(events) : events[k].kind \in kinds}

\* C1: a run that returns after the previous run analyzed every item of the
\* same, unchanged source batch and committed imports nothing, analyzes
\* nothing and skips all N items; the N tickets of the batch are persisted
\* and no ticket was added.
C1_SecondRunSkipsAll ==
    (pc = "done" /\ repeated) =>
        /\ result.imported = 0
        /\ result.analyzed = 0
        /\ result.skipped = Len(batch)
        /\ Cardinality(BatchIds) = Len(batch)
        /\ BatchIds \subseteq DOMAIN tickets
        /\ DOMAIN tickets = DOMAIN before.tickets

C1_Witness ==
    /\ pc = "done"
    /\ repeated
    /\ Len(batch) = 2
    /\ result.skipped = 2

\* C2: a persisted ticket that has sentiment keeps its sentiment_score,
\* sentiment_confidence and sentiment_analyzed_at in every step, also in a
\* run whose batch carries another subject or content for it.
C2_SentimentNeverOverwritten ==
    [][\A id \in DOMAIN tickets :
          tickets[id].sentiment_score # NULL =>
              /\ id \in DOMAIN tickets'
              /\ SameSentiment(tickets'[id], tickets[id])]_vars

C2_Witness ==
    /\ pc = "done"
    /\ \E id \in DOMAIN before.tickets :
          /\ HasSentiment(before.tickets[id])
          /\ id \in DOMAIN tickets
          /\ tickets[id].subject # before.tickets[id].subject
          /\ tickets[id].content # before.tickets[id].content
          /\ SameSentiment(tickets[id], before.tickets[id])

\* C3: classifier failures are counted and do not end the run.  When the
\* run has returned, every item whose call succeeded has its ticket
\* persisted with sentiment, every ticket whose calls all failed is
\* persisted with the three sentiment columns null, and failed counts each
\* failed call once; a run in which a call failed raises only if the commit
\* itself is refused.
C3_ClassifierFailureIsolated ==
    /\ pc = "done" =>
         /\ \A k \in EventsOf({"analyzed"}) :
               /\ events[k].id \in DOMAIN tickets
               /\ HasSentiment(tickets[events[k].id])
         /\ \A k \in EventsOf({"analysis_failed"}) :
               /\ events[k].id \in DOMAIN tickets
               /\ (\A j \in EventsOf({"analyzed"}) : events[j].id # events[k].id)
                     => NoSentiment(tickets[events[k].id])
         /\ result.failed = Cardinality(EventsOf({"analysis_failed"}))
                            + Cardinality(EventsOf({"no_id", "bad_date"}))
         /\ result.analyzed = Cardinality(EventsOf({"analyzed"}))
    /\ (pc = "raised" /\ EventsOf({"analysis_failed"}) # {}) =>
         error \in {"commit", "pending_rollback"}
    /\ (pc = "raised" /\ error = "pending_rollback") => EventsOf({"flush_error"}) # {}

C3_Witness ==
    /\ pc = "done"
    /\ \E k \in EventsOf({"analysis_failed"}), j \in EventsOf({"analyzed"}) :
          /\ events[k].id # events[j].id
          /\ NoSentiment(tickets[events[k].id])
          /\ HasSentiment(tickets[events[j].id])
    /\ result.failed = 1

\* C4: an item whose processing raises is counted in failed, the items
\* after it are processed on their own merits, and the rows staged for the
\* successfully processed items are durable once the database accepts the
\* final commit.
C4_ItemExceptionIsolated ==
    /\ result.failed >= Cardinality(EventsOf({"no_id", "bad_date", "flush_error"}))
    /\ EventsOf({"pending_rollback"}) = {}
    /\ (pc \in {"done", "raised"} /\ error # "commit") =>
          \A k \in EventsOf({"analyzed", "analysis_failed", "skipped", "no_content"}) :
              events[k].id \in DOMAIN tickets

\* C5: until the loop has ended the committed tickets are those of the
\* start of the run; every commit issued before the end of the loop is the
\* commit of a token refresh, ahead of the first item; the run that
\* returns has issued exactly one more commit, after the last item.
C5_SingleCommitAfterLoop ==
    /\ InRun => tickets = before.tickets
    /\ InRun => calls.commit = calls.refresh
    /\ (calls.commit > 0 /\ InRun) => (events = << >> \/ Len(calls.search) = 2)
    /\ pc = "done" =>
          /\ calls.commit = calls.refresh + 1
          /\ idx = Len(batch) + 1
          /\ Len(events) = Len(batch)

C5_Witness ==
    /\ pc = "loop"
    /\ idx = Len(batch) + 1
    /\ Len(batch) = 2
    /\ DOMAIN staged # DOMAIN tickets
    /\ calls.commit = 0

\* C6: when the final commit fails the session is rolled back, so that it
\* holds no write of the run, the exception leaves the run (no ImportResult
\* is returned), and the persisted tickets are those of before the run.
C6_CommitFailureRollsBack ==
    (pc = "raised" /\ error \in {"commit", "pending_rollback"}) =>
        /\ staged = tickets
        /\ tickets = before.tickets
        /\ session_integration = integration
        /\ txn = "active"
        /\ calls.rollback = 1
        /\ idx = Len(batch) + 1

C6_Witness ==
    /\ pc = "raised"
    /\ error = "commit"
    /\ result.imported = 1
    /\ result.analyzed = 2
    /\ \E id \in DOMAIN tickets : NoSentiment(tickets[id])
    /\ staged = tickets

RefreshTokenStored == before.integration.credentials.refresh_token # NULL

FetchOver == pc \in {"loop", "done", "raised"}

FirstAnswerUnauthorized == calls.answers # << >> /\ calls.answers[1] = "401"

\* C7 as stated: a first search answered 401 is followed by exactly one
\* token refresh and exactly one retry of the same request with the new
\* token, and by no second refresh.
C7_RefreshAndRetryExactlyOnce ==
    (FetchOver /\ FirstAnswerUnauthorized) =>
        /\ calls.refresh = 1
        /\ Len(calls.search) = 2
        /\ calls.search[2] = [calls.search[1] EXCEPT !.token = NewTokens.access_token]

\* C7 amended: a run refreshes the token at most once and searches at most
\* twice.  After a first search answered 401 the refresh is called exactly
\* once if a refresh token is stored and not at all otherwise; the search is
\* retried exactly once, with the same limit and sort and the new access
\* token, if the refresh and its commit succeeded and not at all otherwise;
\* a retry that fails, also with 401, ends the run with that error and
\* without a second refresh.
C7_AtMostOneRefreshAndRetry ==
    /\ calls.refresh <= 1
    /\ Len(calls.search) <= 2
    /\ Len(calls.search) = Len(calls.answers)
    /\ (calls.refresh = 1 \/ Len(calls.search) = 2) => FirstAnswerUnauthorized
    /\ (FetchOver /\ FirstAnswerUnauthorized) =>
          /\ calls.refresh = (IF RefreshTokenStored THEN 1 ELSE 0)
          /\ Len(calls.search) =
                (IF error \in {"No refresh token available", "refresh_failed", "commit_failed"}
                 THEN 1 ELSE 2)
          /\ ~RefreshTokenStored => error = "No refresh token available"
    /\ Len(calls.search) = 2 =>
          /\ calls.refresh = 1
          /\ calls.search[2] = [calls.search[1] EXCEPT !.token = NewTokens.access_token]
          /\ calls.search[2].token = integration.credentials.access_token
          /\ calls.answers[2] # "200" => (pc = "raised" /\ error = calls.answers[2])

C7_Witness ==
    /\ pc = "raised"
    /\ calls.answers = <<"401", "401">>
    /\ calls.refresh = 1
    /\ error = "401"

\* C8: once the refresh has succeeded the new credentials are on the
\* committed Integration: when the retry is about to be sent, and in every
\* later state of the run, whether the retry fails, an item fails or the
\* final commit fails and is rolled back.
C8_RefreshedCredentialsDurable ==
    (pc = "retry" \/ Len(calls.search) = 2) =>
        /\ integration.credentials = NewTokens
        /\ integration.last_synced_at \in RefreshTimes
        /\ session_integration.credentials = NewTokens

C8_Witness ==
    /\ pc = "raised"
    /\ error = "commit"
    /\ Len(calls.search) = 2
    /\ result.failed > 0
    /\ integration.credentials = NewTokens

PreconditionErrors ==
    { "HubSpot integration not found",
      "HubSpot integration is error",
      "HubSpot integration is disconnected",
      "HubSpot integration is IntegrationStatus.ERROR",
      "HubSpot integration is IntegrationStatus.DISCONNECTED",
      "HubSpot access token not found in integration credentials" }

\* C9: with no integration, or an integration that is not active, or one
\* without access token, the run raises the ValueError of the first of
\* these checks that fails, and has issued no search, no refresh, no thread
\* fetch, no classifier call, no flush and no commit; no row has changed.
C9_PreconditionStopsRun ==
    /\ (pc # "idle" /\ ~before.integration.exists) =>
          (pc = "raised" /\ error = "HubSpot integration not found")
    /\ (pc # "idle" /\ before.integration.exists /\ before.integration.status # "active") =>
          /\ pc = "raised"
          /\ \E fmt \in EnumFormats :
                error = InactiveMessage(before.integration.status, fmt)
    /\ (pc # "idle" /\ before.integration.exists /\ before.integration.status = "active"
          /\ before.integration.credentials.access_token = NULL) =>
          (pc = "raised"
           /\ error = "HubSpot access token not found in integration credentials")
    /\ (pc = "raised" /\ error \in PreconditionErrors) =>
          /\ calls = NoCalls
          /\ events = << >>
          /\ tickets = before.tickets
          /\ staged = tickets
          /\ integration = before.integration
          /\ session_integration = integration

C9_Witness ==
    /\ pc = "raised"
    /\ integration.exists
    /\ integration.status = "disconnected"
    /\ integration.credentials.access_token = NULL
    /\ error = "HubSpot integration is disconnected"

\* C10: a first search that fails with anything but 401 ends the run with
\* that error: one search, no refresh, no item processed, no commit, and
\* the committed and the session's rows are those of before the run.
C10_OtherFetchFailurePropagates ==
    /\ (calls.answers # << >> /\ calls.answers[1] \in {"500", "network"}) =>
          /\ pc = "raised"
          /\ error = calls.answers[1]
          /\ Len(calls.search) = 1
          /\ calls.refresh = 0
          /\ calls.commit = 0
          /\ calls.flush = 0
          /\ events = << >>
          /\ batch = << >>
          /\ tickets = before.tickets
          /\ staged = tickets
          /\ integration = before.integration
          /\ session_integration = integration

C10_Witness ==
    /\ pc = "raised"
    /\ calls.answers = <<"500">>
    /\ tickets # << >>
    /\ before.integration.credentials.refresh_token # NULL

\* Whole days between an item's createdate and the day of the run
\* (2025-11-10).
DaysAgo(createdate) ==
    CASE createdate = GoodDate -> 2
      [] createdate = OldDate -> 10
      [] OTHER -> 0

Upserted == EventsOf({"analyzed", "analysis_failed", "skipped", "no_content"})

\* C11: a run called with days_back = N upserts only the fetched items
\* whose createdate lies within the last N days.
C11_OnlyItemsWithinDaysBack ==
    pc = "done" =>
        \A k \in Upserted : DaysAgo(batch[k].createdate) <= days_back

\* C17: the step that creates a ticket whose assembled content is empty
\* (no description, no emails) counts it in imported and in nothing else,
\* calls no classifier and leaves the three sentiment columns null.
C17_EmptyContentImportedOnly ==
    [][(/\ pc = "loop"
        /\ idx' = idx + 1
        /\ batch[idx].id \notin DOMAIN staged
        /\ batch[idx].id \in DOMAIN staged'
        /\ staged'[batch[idx].id].content = << >>)
       => (/\ result' = Bump(result, "imported")
           /\ calls'.classify = calls.classify
           /\ NoSentiment(staged'[batch[idx].id])
           /\ events'[idx].kind = "no_content")]_vars

C17_Witness ==
    /\ pc = "done"
    /\ Len(batch) = 1
    /\ batch[1].content = ""
    /\ events[1].kind = "no_content"
    /\ batch[1].id \notin DOMAIN before.tickets
    /\ tickets[batch[1].id].content = << >>
    /\ NoSentiment(tickets[batch[1].id])
    /\ result = Bump(ZeroResult, "imported")
    /\ calls.classify = 0

UpsertKinds == {"analyzed", "analysis_failed", "skipped", "no_content"}

\* C20: whenever the thread fetch of the next item fails, an item that
\* would be upserted with its thread is upserted all the same, with the
\* content assembled from the description alone; failed grows only if the
\* analysis of that content fails; and every item before it has been
\* handled whatever happened to their threads.
C20_ThreadFetchBestEffort ==
    (pc = "loop" /\ idx <= Len(batch)) =>
        /\ Len(events) = idx - 1
        /\ \A obs \in Observations :
              LET item == batch[idx]
                  with_thread == process_ticket(item, TRUE, obs[1], obs[2])
                  without == process_ticket(item, FALSE, obs[1], obs[2])
              IN  with_thread.event.kind \in UpsertKinds =>
                      /\ without.event.kind \in UpsertKinds
                      /\ item.id \in DOMAIN without.staged
                      /\ without.staged[item.id].content =
                              build_ticket_content(item.subject, item.content, << >>)
                      /\ without.staged[item.id].subject = item.subject
                      /\ without.result.failed = result.failed
                              + (IF without.event.kind = "analysis_failed" THEN 1 ELSE 0)
                      /\ without.result.imported = with_thread.result.imported

\* The thread of t1 could not be fetched; t1 and the item after it are
\* persisted.
C20_Witness ==
    /\ pc = "done"
    /\ Len(batch) = 2
    /\ batch[1].id = "t1"
    /\ ThreadOf("t1") # << >>
    /\ tickets["t1"].content = <<"Initial Description:", "d1">>
    /\ HasSentiment(tickets["t1"])
    /\ batch[2].id = "t2"
    /\ events[2].kind = "analyzed"
    /\ result.failed = 0
    /\ result.imported = 2

AllOrNothing(row) == HasSentiment(row) \/ NoSentiment(row)

\* C21: in every state that import runs reach from an empty store, also
\* through classification failures, item exceptions and refused commits,
\* every persisted ticket and every ticket the session holds has its
\* sentiment_score, sentiment_confidence and sentiment_analyzed_at either
\* all null or all set.
C21_SentimentAllOrNothing ==
    /\ \A id \in DOMAIN tickets : AllOrNothing(tickets[id])
    /\ \A id \in DOMAIN staged : AllOrNothing(staged[id])

\* A run on a store that holds an analyzed and an unanalyzed ticket had a
\* classification fail and was refused its commit.
C21_Witness ==
    /\ pc = "raised"
    /\ error = "commit"
    /\ EventsOf({"analysis_failed"}) # {}
    /\ \E id \in DOMAIN tickets : HasSentiment(tickets[id])
    /\ \E id \in DOMAIN tickets : NoSentiment(tickets[id])

LastUpsertOf(id) ==
    {k \in Upserted : events[k].id = id /\ \A j \in Upserted : events[j].id = id => j <= k}

\* C23: the step that upserts an item whose ticket exists leaves the ticket,
\* with or without sentiment, with the subject of the item and the content
\* assembled from the item, and leaves imported as it was; when the run has
\* returned, every ticket that existed before it and was upserted carries
\* the subject of the last item upserted for it.
C23_ExistingTicketRefreshed ==
    /\ [][(/\ pc = "loop"
            /\ idx' = idx + 1
            /\ batch[idx].id \in DOMAIN staged
            /\ events'[idx].kind \in UpsertKinds)
           => (/\ staged'[batch[idx].id].subject = batch[idx].subject
               /\ staged'[batch[idx].id].content \in
                     { build_ticket_content(batch[idx].subject, batch[idx].content,
                                            fetch_email_thread(batch[idx].id, ok))
                         : ok \in BOOLEAN }
               /\ result'.imported = result.imported)]_vars
    /\ [](pc = "done" =>
            \A id \in DOMAIN before.tickets : \A k \in LastUpsertOf(id) :
                tickets[id].subject = batch[k].subject)

\* A ticket without sentiment got another subject and content from a run
\* whose classification of it failed; nothing was imported.
C23_Witness ==
    /\ pc = "done"
    /\ Len(batch) = 1
    /\ events[1].kind = "analysis_failed"
    /\ batch[1].id \in DOMAIN before.tickets
    /\ NoSentiment(before.tickets[batch[1].id])
    /\ tickets[batch[1].id].subject # before.tickets[batch[1].id].subject
    /\ tickets[batch[1].id].content # before.tickets[batch[1].id].content
    /\ tickets[batch[1].id].subject = batch[1].subject
    /\ result.imported = 0

\* The first search was answered 401 and the run could not recover: no
\* refresh token is stored, the refresh call failed, or the retried search
\* was answered 401 again.
UnrecoverableAuthFailure ==
    /\ pc = "raised"
    /\ FirstAnswerUnauthorized
    /\ \/ error \in {"No refresh token available", "refresh_failed"}
       \/ calls.answers = <<"401", "401">>

\* C26: a run that ends in an unrecoverable authorization failure leaves
\* the committed Integration with a status other than active.
C26_UnrecoverableAuthDeactivates ==
    UnrecoverableAuthFailure => integration.status # "active"

\* sentiment_score of the ticket of external id `id` as the session sees it.
PriorSentiment(id) ==
    IF id \in DOMAIN staged THEN staged[id].sentiment_score ELSE NULL

\* C29: the step of a batch item calls the classifier once if the item is
\* upserted, its ticket had no sentiment and the assembled content is not
\* empty, and not at all otherwise; an upserted item whose ticket had
\* sentiment adds one to skipped and to nothing else.
C29_ClassificationGate ==
    [][(pc = "loop" /\ idx' = idx + 1)
       => LET id == batch[idx].id
              upserted == events'[idx].kind \in UpsertKinds
              gate == /\ upserted
                      /\ PriorSentiment(id) = NULL
                      /\ staged'[id].content # << >>
          IN  /\ calls'.classify = calls.classify + (IF gate THEN 1 ELSE 0)
              /\ gate <=> events'[idx].kind \in {"analyzed", "analysis_failed"}
              /\ (upserted /\ PriorSentiment(id) # NULL) =>
                     /\ result' = Bump(result, "skipped")
                     /\ calls'.classify = calls.classify]_vars

\* A batch of an analyzed ticket and a new one: one skip, one call.
C29_Witness ==
    /\ pc = "done"
    /\ Len(batch) = 2
    /\ events[1].kind = "skipped"
    /\ events[2].kind = "analyzed"
    /\ HasSentiment(before.tickets[batch[1].id])
    /\ batch[2].id \notin DOMAIN before.tickets
    /\ calls.classify = 1
    /\ result = [imported |-> 1, analyzed |-> 1, skipped |-> 1, failed |-> 0]

\* C27: the endpoint answers 404 to a run that failed for want of an
\* integration, 401 to a run that failed because the integration is not
\* active, 500 to a run that raised anything but a ValueError, and the four
\* counters of the run that returned.
C27_HttpMapping ==
    /\ (pc = "raised" /\ ~before.integration.exists) => Response.status_code = 404
    /\ (pc = "raised" /\ before.integration.exists
          /\ before.integration.status # "active") => Response.status_code = 401
    /\ (pc = "raised" /\ error \notin ValueErrors) => Response.status_code = 500
    /\ pc = "done" => (Response.status_code = 200 /\ Response.counters = result)

----------------------------------------------------------------------------
\* Properties of the analyzer

Failed(answer) == ~analyze_once(answer).ok

CallOver == a_pc = "idle" /\ trace # << >>

LastCall == history[Len(history)]

Exhausted == {k \in 1..Len(history) : history[k].outcome = "retry_error"}

\* C12: a call of analyze_ticket issues at most 3 requests; no request
\* follows a successful attempt; a call whose every attempt failed (network
\* error, HTTP error status, malformed response) has issued exactly 3
\* requests and ended in the retry-exhausted error.
C12_AtMostThreeRequests ==
    /\ Len(trace) <= MaxAttempts
    /\ \A k \in 1..Len(trace) : k < Len(trace) => Failed(trace[k])
    /\ a_pc = "attempt" =>
          /\ Len(trace) < MaxAttempts
          /\ \A k \in 1..Len(trace) : Failed(trace[k])
    /\ CallOver =>
          /\ LastCall.requests = Len(trace)
          /\ ~Failed(trace[Len(trace)]) => LastCall.outcome = "returned"
          /\ Failed(trace[Len(trace)]) =>
                (Len(trace) = MaxAttempts /\ LastCall.outcome = "retry_error")

C12_Witness ==
    /\ CallOver
    /\ Len(trace) = 3
    /\ trace[1].kind = "network"
    /\ trace[2].kind = "http_error"
    /\ trace[3].kind = "not_json"
    /\ LastCall.outcome = "retry_error"
    /\ LastCall.requests = 3

AllUnparseable == \A k \in 1..Len(trace) : trace[k].kind = "not_json"

\* C13: a call whose 3 attempts all got an unparseable body ends in the
\* retry-exhausted error whose last attempt is the parse failure of the
\* third attempt; lines 313-315 count the ticket in failed, leave its
\* sentiment null and the loop goes on.
C13_ExhaustionKeepsParseFailure ==
    /\ (CallOver /\ Len(trace) = MaxAttempts /\ AllUnparseable) =>
          /\ LastCall.outcome = "retry_error"
          /\ LastCall.cause = [kind |-> "parse_failure", attempt |-> MaxAttempts]
          /\ NoSentiment(LastCall.row)
    /\ \A k \in Exhausted : history[k].cause.attempt = MaxAttempts
    /\ a_result.failed = Cardinality(Exhausted)
    /\ a_result.analyzed = Len(history) - Cardinality(Exhausted)

C13_Witness ==
    /\ CallOver
    /\ Len(trace) = 3
    /\ AllUnparseable
    /\ Len(history) = 2
    /\ history[1].outcome = "returned"
    /\ history[2].cause.kind = "parse_failure"
    /\ a_result.failed = 1
    /\ a_result.analyzed = 1

\* C14: every call starts at attempt 1 whatever the calls before it on the
\* same analyzer used up, and every call that ends exhausted, the first as
\* any later one, has made all 3 attempts.
C14_BudgetPerTicket ==
    /\ (a_pc = "attempt" /\ trace = << >>) => attempt = 1
    /\ a_pc = "attempt" => attempt = Len(trace) + 1
    /\ \A k \in Exhausted : history[k].requests = MaxAttempts
    /\ \A k \in 1..Len(history) : history[k].requests \in 1..MaxAttempts

C14_Witness ==
    /\ a_pc = "idle"
    /\ Len(history) = 2
    /\ history[1].outcome = "retry_error"
    /\ history[2].outcome = "retry_error"
    /\ history[1].requests = 3
    /\ history[2].requests = 3

LacksField(answer) ==
    answer.kind = "json" /\ (~answer.has_sentiment \/ ~answer.has_topics)

\* C15: an attempt whose parsed response lacks sentiment or topics yields
\* no result: it is retried, or it is the third attempt and the call ends
\* in the retry-exhausted error with that failure; a call returns only on a
\* response that has both fields.
C15_RequiredFields ==
    /\ \A k \in 1..Len(trace) :
          LacksField(trace[k]) =>
              \/ k < Len(trace)
              \/ a_pc = "attempt" /\ last_attempt.attempt = k
                    /\ last_attempt.kind \in {"missing_sentiment", "missing_topics"}
              \/ /\ CallOver
                 /\ k = MaxAttempts
                 /\ LastCall.outcome = "retry_error"
                 /\ LastCall.cause.kind \in {"missing_sentiment", "missing_topics"}
    /\ (CallOver /\ LastCall.outcome = "returned") =>
          /\ trace[Len(trace)].kind = "json"
          /\ trace[Len(trace)].has_sentiment
          /\ trace[Len(trace)].has_topics

C15_Witness ==
    /\ CallOver
    /\ Len(trace) = 3
    /\ ~trace[1].has_sentiment /\ trace[1].kind = "json"
    /\ ~trace[2].has_topics /\ trace[2].kind = "json"
    /\ LastCall.outcome = "returned"
    /\ LastCall.requests = 3

\* C16: a call returns only on a response whose sentiment score is one of
\* the five labels; any other response is rejected, none is given a
\* default label.
C16_OnlyListedScoresAccepted ==
    (CallOver /\ LastCall.outcome = "returned") =>
        /\ trace[Len(trace)].score \in SentimentScores
        /\ LastCall.row.sentiment_score = trace[Len(trace)].score

\* The answer carries a sentiment or topic confidence outside [0, 1].
OutOfRange(answer) ==
    /\ answer.kind = "json"
    /\ \/ answer.confidence # NoConfidence /\ (answer.confidence < 0 \/ answer.confidence > 100)
       \/ \E k \in 1..Len(answer.topics) :
             answer.topics[k].confidence < 0 \/ answer.topics[k].confidence > 100

\* C28: every result analyze_ticket returns has its sentiment confidence
\* and every topic confidence within [0, 1]; an attempt whose response
\* carries a confidence outside [0, 1] yields no result; the
\* sentiment_confidence written to a ticket lies within [0, 1] and a ticket
\* whose call failed keeps it null.
C28_ConfidenceWithinRange ==
    /\ \A k \in 1..Len(trace) :
          LET out == analyze_once(trace[k])
          IN  /\ OutOfRange(trace[k]) => ~out.ok
              /\ out.ok =>
                    /\ out.result.confidence \in 0..100
                    /\ \A j \in 1..Len(out.result.topics) :
                          out.result.topics[j].confidence \in 0..100
    /\ \A k \in 1..Len(history) :
          IF history[k].outcome = "returned"
          THEN history[k].row.sentiment_confidence \in 0..100
          ELSE history[k].row.sentiment_confidence = NoConfidence
    /\ (CallOver /\ LastCall.outcome = "returned") =>
          /\ ~OutOfRange(trace[Len(trace)])
          /\ LastCall.row.sentiment_confidence =
                analyze_once(trace[Len(trace)]).result.confidence

\* Confidence 1.5, then a topic at 1.2, then 1.0: the third is returned.
C28_Witness ==
    /\ CallOver
    /\ Len(trace) = 3
    /\ trace[1].confidence = 150
    /\ trace[2].topics = <<Topic1, Topic2>>
    /\ trace[3].confidence = 100
    /\ LastCall.outcome = "returned"
    /\ LastCall.row.sentiment_confidence = 100

----------------------------------------------------------------------------
\* Properties of _map_ticket_status

\* word occurs in str at some position, letter case aside.
Occurs(word, str) ==
    \E k \in 1..Len(str) :
        /\ k + Len(word) - 1 <= Len(str)
        /\ \A j \in 1..Len(word) :
              str[k + j - 1] = word[j] \/ LowerChar(str[k + j - 1]) = word[j]

StageText == Flatten(stage)

\* C18: the status returned for a pipeline-stage string is new if "new"
\* occurs in it in any letter case; else waiting if "waiting" or "pending"
\* occurs; else closed if "closed" or "resolved" occurs; else open.
C18_FirstMatchingRule ==
    mapped # NULL =>
        /\ mapped = "new" <=> Occurs(W_new, StageText)
        /\ mapped = "waiting" <=>
              /\ ~Occurs(W_new, StageText)
              /\ Occurs(W_waiting, StageText) \/ Occurs(W_pending, StageText)
        /\ mapped = "closed" <=>
              /\ ~Occurs(W_new, StageText)
              /\ ~Occurs(W_waiting, StageText) /\ ~Occurs(W_pending, StageText)
              /\ Occurs(W_closed, StageText) \/ Occurs(W_resolved, StageText)
        /\ mapped = "open" <=>
              /\ ~Occurs(W_new, StageText)
              /\ ~Occurs(W_waiting, StageText) /\ ~Occurs(W_pending, StageText)
              /\ ~Occurs(W_closed, StageText) /\ ~Occurs(W_resolved, StageText)
        /\ mapped \in {"new", "waiting", "closed", "open"}

\* "Closed and resolved" gives closed.
C18_Witness ==
    /\ stage = << <<"C", "l", "o", "s", "e", "d">>, <<" ", "a", "n", "d", " ">>,
                  <<"r", "e", "s", "o", "l", "v", "e", "d">> >>
    /\ mapped = "closed"

----------------------------------------------------------------------------
\* Properties of the content assembly

Range(seq) == {seq[k] : k \in 1..Len(seq)}

\* The same emails listed in every order.
Reorderings(seq) ==
    {p \in [1..Len(seq) -> Range(seq)] : Range(p) = Range(seq)}

\* C19: the text assembled for a description and a set of emails is the
\* same in whatever order the emails were listed.
C19_SameTextInAnyOrder ==
    content_out # NotAssembled =>
        \A p \in Reorderings(thread_in) :
            build_ticket_content("s1", desc_in, fetch_listed_thread(p))
                = content_out

\* The email has no timestamp: the key is absent or its value is null.
Undated(email) == email.hs_timestamp \in {"", NULL}

UndatedFirst(emails) ==
    \A i, j \in 1..Len(emails) :
        (Undated(emails[i]) /\ ~Undated(emails[j])) => i < j

\* C30: the assembled content holds every listed email, those without
\* timestamp (key absent or null) ahead of every email that has one.
C30_UndatedEmailsFirst ==
    content_out # NotAssembled =>
        \E p \in Reorderings(thread_in) :
            /\ UndatedFirst(p)
            /\ content_out = build_ticket_content("s1", desc_in, p)

----------------------------------------------------------------------------
\* Properties of the loop

InFlight == {k \in 1..loop_items : item_pos[k] \in {"classify", "backoff"}}

\* C24: at most one item of the batch has an analyzer call under way, its
\* retries included; an item has left its waiting position only if the item
\* before it has ended; and in the order of the thread fetches, lookups and
\* classifier requests issued, those of an item come after all those of
\* the items before it.
C24_StrictlySequential ==
    /\ Cardinality(InFlight) <= 1
    /\ \A k \in 2..loop_items :
          item_pos[k] # "waiting" => item_pos[k - 1] \in ItemEnds
    /\ \A i, j \in 1..Len(io_log) :
          i < j => io_log[i].item <= io_log[j].item

\* The first item was given up after its third attempt; the second is in
\* its second attempt.
C24_Witness ==
    /\ loop_items = 2
    /\ item_pos = <<"failed", "classify">>
    /\ item_attempt = <<3, 2>>
    /\ Len(io_log) = 9

----------------------------------------------------------------------------
\* Properties of the runs of two tenants

\* No two rows have the same (tenant_id, external_id).
UniqueIdentity(rows) ==
    \A i, j \in DOMAIN rows :
        (rows[i].tenant_id = rows[j].tenant_id
            /\ rows[i].external_id = rows[j].external_id) => i = j

\* The run of tenant t has taken a step.
Acted(t) == r_pc'[t] # r_pc[t] \/ r_idx'[t] # r_idx[t]

\* C22: the persisted tickets, and the tickets as any session sees them,
\* hold at most one row per (tenant_id, external_id); the step of an item
\* whose external id the tenant has a row for writes the item's subject to
\* that row, under its row id, and adds no row.
C22_TicketIdentityUnique ==
    /\ [](/\ UniqueIdentity(db_tickets)
           /\ \A t \in Tenants : UniqueIdentity(Overlay(db_tickets, r_session[t])))
    /\ [][\A t \in Tenants :
            (r_pc[t] = "loop" /\ r_idx'[t] = r_idx[t] + 1) =>
                LET item == r_batch[t][r_idx[t]]
                    seen == Overlay(db_tickets, r_session[t])
                    after == Overlay(db_tickets', r_session'[t])
                IN  \A i \in DOMAIN seen :
                        (seen[i].tenant_id = t /\ seen[i].external_id = item.id) =>
                            /\ DOMAIN after = DOMAIN seen
                            /\ after[i].tenant_id = t
                            /\ after[i].external_id = item.id
                            /\ after[i].subject = item.subject]_vars

\* The run of A is about to commit the committed row of its ticket t1 with
\* another subject, under the same row id; B has a ticket t1 of its own.
C22_Witness ==
    /\ r_pc["A"] = "loop"
    /\ r_idx["A"] > Len(r_batch["A"])
    /\ Cardinality(DOMAIN db_tickets) = 2
    /\ DOMAIN r_session["A"] \subseteq DOMAIN db_tickets
    /\ \E i \in DOMAIN r_session["A"] :
          /\ db_tickets[i].tenant_id = "A"
          /\ r_session["A"][i].subject # db_tickets[i].subject

RowsOf(rows, t) == {<<i, rows[i]>> : i \in {j \in DOMAIN rows : rows[j].tenant_id = t}}

\* C25: a step of the run of a tenant leaves the committed tickets and
\* the Integrations of every other tenant, and the session of every other
\* run, as they were; the Integration the run holds and every ticket row
\* its session has written are the tenant's own.
C25_TenantIsolation ==
    [][\A t \in Tenants :
          Acted(t) =>
              /\ \A u \in Tenants \ {t} :
                    /\ RowsOf(db_tickets', u) = RowsOf(db_tickets, u)
                    /\ {r \in db_integrations' : r.tenant_id = u}
                          = {r \in db_integrations : r.tenant_id = u}
                    /\ r_session'[u] = r_session[u]
                    /\ r_integration'[u] = r_integration[u]
              /\ \A i \in DOMAIN r_session'[t] : r_session'[t][i].tenant_id = t
              /\ r_integration'[t] \in {NoIntegration} \cup
                    {r \in db_integrations' : r.tenant_id = t /\ r.type = "hubspot"}]_vars

\* Both runs are in their loops, each with a write to its own ticket t1
\* flushed, while the committed rows of the two tickets t1 differ.
C25_Witness ==
    /\ r_pc = [t \in Tenants |-> "loop"]
    /\ \A t \in Tenants :
          \E i \in DOMAIN db_tickets \cap DOMAIN r_session[t] :
              /\ db_tickets[i].tenant_id = t
              /\ db_tickets[i].external_id = "t1"
    /\ \E i, j \in DOMAIN db_tickets :
          /\ db_tickets[i].tenant_id = "A"
          /\ db_tickets[j].tenant_id = "B"
          /\ db_tickets[i].subject # db_tickets[j].subject
    /\ db_integrations # ConnectedIntegrations

----------------------------------------------------------------------------
\* Properties of the run as a whole

\* C31: a run issues at most two search requests, at most one token
\* refresh and at most one classifier call per processed item, and once
\* it has entered the loop it raises only because the database refused
\* its commit, never because of the exception of an item.
C31_RunOutcomeAndBounds ==
    /\ Len(calls.search) <= 2
    /\ calls.refresh <= 1
    /\ calls.classify <= Len(events)
    /\ (pc = "raised" /\ events # << >>) => error = "commit"

Outcomes(r) == r.analyzed + r.skipped + r.failed

\* C32: the four counters are never negative; analyzed + skipped + failed
\* and imported never exceed the number of items processed so far, which
\* never exceeds the batch size; and the step of one item raises at most
\* one of analyzed, skipped and failed, by one, and imported by at most one.
C32_CounterAccounting ==
    /\ [](/\ \A f \in DOMAIN result : result[f] >= 0
          /\ Outcomes(result) <= Len(events)
          /\ result.imported <= Len(events)
          /\ Len(events) <= Len(batch))
    /\ [][Len(events') = Len(events) + 1 =>
            /\ Outcomes(result') - Outcomes(result) \in {0, 1}
            /\ \A f \in {"analyzed", "skipped", "failed"} : result'[f] >= result[f]
            /\ result'.imported - result.imported \in {0, 1}]_vars

\* A run returned from a batch of two items, one analyzed and one whose
\* analysis failed, both new.
C32_Witness ==
    /\ pc = "done"
    /\ Len(batch) = 2
    /\ result = [imported |-> 2, analyzed |-> 1, skipped |-> 0, failed |-> 1]
    /\ events[1].kind = "analysis_failed"

\* Tickets the run made durable that were not there when it started.
NewlyPersisted == DOMAIN tickets \ DOMAIN before.tickets

C34_RefreshedTokenUsedAfterRefresh ==
    calls.refresh > 0 =>
        \A k \in 1..Len(events) :
            events[k].token # NULL =>
                /\ events[k].token = session_integration.credentials.access_token
                /\ events[k].token # before.integration.credentials.access_token

\* C35: while a run is under way and after it, the Integration holds the
\* hub id it held when the run started, and every deep link the run built
\* is the one built from the credentials of the start of the run.
C35_RefreshPreservesHubId ==
    pc # "idle" =>
        /\ integration.credentials.hub_id = before.integration.credentials.hub_id
        /\ session_integration.credentials.hub_id = before.integration.credentials.hub_id
        /\ \A k \in 1..Len(events) :
              events[k].url # NULL =>
                  events[k].url = external_url(before.integration.credentials, events[k].id)

\* C36: when the first search was answered 401 and the Integration held no
\* refresh token at the start of the run, the run has raised "No refresh
\* token available" with no refresh call, no second search, no commit and
\* no rollback, and the Integration, its credentials and last_synced_at
\* included, and the tickets are those of the start of the run.
C36_UnauthorizedWithoutRefreshToken ==
    (FirstAnswerUnauthorized /\ ~RefreshTokenStored) =>
        /\ pc = "raised"
        /\ error = "No refresh token available"
        /\ calls.refresh = 0
        /\ Len(calls.search) = 1
        /\ calls.commit = 0
        /\ calls.rollback = 0
        /\ integration = before.integration
        /\ session_integration = before.integration
        /\ tickets = before.tickets

\* The run of an Integration without refresh token has raised on the 401
\* of its search, with tickets of an earlier run persisted.
C36_Witness ==
    /\ pc = "raised"
    /\ calls.answers = <<"401">>
    /\ integration.credentials.refresh_token = NULL
    /\ integration.credentials.access_token = "a0"
    /\ tickets # << >>

\* The item the loop is about to process is well formed, carries a
\* description, and is a ticket persisted without sentiment that this run
\* has not analyzed so far.
AwaitsAnalysis ==
    /\ pc = "loop"
    /\ idx <= Len(batch)
    /\ batch[idx].id \in DOMAIN tickets
    /\ NoSentiment(tickets[batch[idx].id])
    /\ batch[idx].content # ""
    /\ batch[idx].subject # NULL
    /\ IsIsoFormat(batch[idx].createdate)
    /\ \A j \in EventsOf({"analyzed"}) : events[j].id # batch[idx].id

\* C37: the step of an item whose ticket is persisted without sentiment,
\* well formed and with a description, calls the classifier, and if the
\* classifier answers, the ticket has its sentiment and analyzed is raised
\* by one.
C37_FailedAnalysisRetried ==
    [][(AwaitsAnalysis /\ Len(events') = Len(events) + 1) =>
          /\ calls'.classify = calls.classify + 1
          /\ events'[idx].kind \in {"analyzed", "analysis_failed"}
          /\ events'[idx].kind = "analyzed" =>
                /\ HasSentiment(staged'[batch[idx].id])
                /\ result'.analyzed = result.analyzed + 1]_vars

\* Both items of the batch carry the same external id, of a ticket that
\* was not persisted when the run started; both have been processed and
\* the first one created the row.
DuplicateProcessed ==
    /\ Len(batch) = 2
    /\ Len(events) = 2
    /\ batch[1].id = batch[2].id
    /\ batch[1].id \notin DOMAIN before.tickets
    /\ events[1].kind \in UpsertKinds

C39_ItemWithoutIdOnlyCounted ==
    [][(pc = "loop" /\ idx <= Len(batch) /\ batch[idx].id = ""
           /\ Len(events') = Len(events) + 1) =>
          /\ result' = [result EXCEPT !.failed = @ + 1]
          /\ calls' = calls
          /\ staged' = staged
          /\ tickets' = tickets
          /\ txn' = txn
          /\ events'[idx].kind = "no_id"
          /\ idx' = idx + 1
          /\ pc' = "loop"]_vars

\* A run returned from a batch whose first item had no id and whose second
\* item was imported and analyzed.
C39_Witness ==
    /\ pc = "done"
    /\ Len(batch) = 2
    /\ batch[1].id = ""
    /\ events[2].kind = "analyzed"
    /\ result = [imported |-> 1, analyzed |-> 1, skipped |-> 0, failed |-> 1]
    /\ calls.thread = 1
    /\ calls.classify = 1
    /\ Cardinality(DOMAIN tickets \ DOMAIN before.tickets) = 1

====
